---- MODULE Spec2Model ----
(***************************************************************************)
(* Smart Pet Feeder firmware (ESP32, Arduino): a state-machine model of    *)
(* the SMS dispatcher and the modem session poller (src/src/gsm.cpp), the  *)
(* bowl classifier (src/src/sensor.cpp), the feeding calls of the motor    *)
(* module (src/src/motor.cpp) and the top-level loop with the manual       *)
(* controls and the automatic feeding policy (src/src/main.cpp).           *)
(*                                                                         *)
(* Time: `now` is the value of millis(), an unsigned millisecond            *)
(* counter.  A handler is atomic with respect to the clock: every         *)
(* millis() it reads returns the value at its entry, and the time its      *)
(* blocking delays consume is accounted for by the Tick steps that follow. *)
(* Serial output, the buzzer, the pulses on the motor pins and the statics  *)
(* that only throttle Serial output are not part of the state.             *)
(***************************************************************************)
EXTENDS Integers, Sequences, FiniteSets, TLC

\* ------------------------------------------------------------------ bounds
\* Spec: the number of clock advances and of queueSMS calls of a behaviour.
MaxTicks == 4
MaxMsgs == 2
\* SpecQueue: the same, for the behaviours that fill the queue.
MaxQueueTicks == 1
MaxQueueMsgs == 6
\* SpecLoop: the number of iterations of loop().
MaxLoops == 3
\* SpecFeed: the number of clock advances.
MaxFeedTicks == 5
\* SpecMotor: the number of clock advances, and the largest of the small step
\* counts.
MaxMotorTicks == 2
MaxSteps == 9
\* SpecSensor: the number of clock advances.
MaxSensorTicks == 4
\* SpecButton: the number of clock advances.
MaxButtonTicks == 4
\* SpecBoot: the number of clock advances.
MaxBootTicks == 4
\* SpecQuota: the number of clock advances.
MaxQuotaTicks == 18

\* ------------------------------------------------------- program constants
MAX_SMS_QUEUE == 5
SMS_PRIORITY_HIGH == 0
SMS_PRIORITY_MEDIUM == 1
SMS_PRIORITY_LOW == 2
GSM_OFFLINE == 0
GSM_INITIALIZING == 1
GSM_NETWORK_SEARCHING == 2
GSM_NETWORK_CONNECTED == 3
GSM_SMS_READY == 4
GSM_ERROR == 5
GSM_INIT_TIMEOUT == 30000
GSM_STATUS_CHECK_INTERVAL == 10000
HIGH_MIN_INTERVAL == 10000
MEDIUM_MIN_INTERVAL == 30000
LOW_MIN_INTERVAL == 120000
CONNECTION_CHECK_INTERVAL == 60000
ERROR_RECOVERY_INTERVAL == 30000
SMS_AUTO_FEED == 0
SMS_MANUAL_FEED == 1
SMS_FEEDING_ERROR == 2
SMS_DAILY_RESET == 3
SMS_BOWL_EMPTY_ALERT == 4
SMS_SYSTEM_STATUS == 5
CAT_MODE == 0
DOG_MODE == 1
IDLE == 0
CHECKING_BOWL == 1
DISPENSING == 2
ALERT_EMPTY_HOPPER == 3
MANUAL_FEEDING == 4
ERROR_STATE == 5
CAT_MIN_PORTION == 500
DOG_MIN_PORTION == 1700
MOTOR_SPEED == 200
MOTOR_ACCELERATION == 100
MAX_STEP_DELAY == 10000
DEBOUNCE_DELAY == 50
SENSOR_READ_INTERVAL == 1000
AUTO_FEED_MIN_INTERVAL == 120000
AUTO_FEED_CHECK_INTERVAL == 5000
MAX_DAILY_AUTO_FEEDS == 8
BOWL_EMPTY_CONFIRMATION_TIME == 60000
DAILY_RESET_INTERVAL == 86400000
MAX_FEED_ALERT_INTERVAL == 3600000
\* Distances are in millimetres, the unit of the sensor's two data bytes; the
\* program compares their tenth, in cm, with thresholds in cm.
BOWL_EMPTY_THRESHOLD == 150
BOWL_FULL_THRESHOLD == 80
\* sensor.cpp names HOPPER_EMPTY_THRESHOLD and HOPPER_LOW_THRESHOLD, which no
\* header of src/ defines; the values are the specification's, 25 cm and 20 cm.
HOPPER_EMPTY_THRESHOLD == 250
HOPPER_LOW_THRESHOLD == 200

\* digitalRead's levels, held in bool variables.
HIGH == TRUE

LOW == FALSE

\* millis() and every timestamp are unsigned long, which wraps at 2^32.  TLC's
\* integers end at 2^31 - 1, so the clock of the model wraps at 2^30 ms: every
\* interval of the program (the longest is 24 h, under 2^27 ms) is far below
\* it, and a difference of two timestamps is taken modulo the wrap as in the code.
CLOCK_WRAP == 1073741824

Priorities == {SMS_PRIORITY_HIGH, SMS_PRIORITY_MEDIUM, SMS_PRIORITY_LOW}

\* The amounts of time (ms) one Tick step lets pass.
Delays == {5000, 10000, 120000}

\* The same for the queue operations: half the shortest minimum send interval,
\* and that interval.
QueueDelays == {5000, 10000}

\* The same for the feeding policy.
FeedDelays == {5000, 60000, 120000}

\* The same for the daily quota: the minimum interval between automatic feeds,
\* and 24 h.
QuotaDelays == {120000, 86400000}

\* The time (ms) one iteration of loop() takes: its delay(10) alone, or the
\* blocking calls of its handlers too.
LoopDelays == {10, 5000, 10000}

\* millis() when setup() has run: its delays add up to a little over 5 s.
SetupDurations == {5000}

\* What readUltrasonicDistance returns: -1 for a failed or out-of-range read,
\* else a distance in mm.
NO_READING == -1

FeedReadings == {NO_READING, 50, 200}

LoopReadings == {200}

QuotaReadings == {200}

\* The time between two iterations and the readings of the sensor where the
\* hourly alert is checked: two minutes or an hour, the bowl empty.
MaxAlertTicks == 20
AlertDelays == {120000, 3600000}
AlertReadings == {50, 200}

\* The time (ms) between two calls of dispensePortionSmooth.
MotorDelays == {1000}

\* The step counts asked of dispensePortionSmooth and dispensePortion: none,
\* the small ones, the test move and the two portions of manualFeed.
MotorSteps == (-1..MaxSteps) \cup {100, CAT_MIN_PORTION, DOG_MIN_PORTION}

\* The acceleration parameter: testMotorMovement's and the configured one.
MotorAccelerations == {50, MOTOR_ACCELERATION}

\* The time (ms) between two calls of updateSensorReadings: under and at
\* SENSOR_READ_INTERVAL.
SensorDelays == {500, 1000}

\* The distances (mm) the sensor returns around the two thresholds of the
\* bowl, and no reading.
SensorReadings == {NO_READING, 79, 80, 150, 151}

\* The time (ms) between two samples of the buttons: under, at and over
\* DEBOUNCE_DELAY in sum.
ButtonDelays == {10, 40, 60}

\* Iterations of loop() on a ready modem: the time an iteration takes, and
\* the readings of the sensor: a bowl with food, or a bowl and a hopper that
\* are empty.
MaxIters == 3
IterDelays == {5000, 60000}
IterReadings == {50, 300}

\* The buttons and the feeding policy, the daily quota used up or not: the
\* time between two iterations and the readings of the sensor.
MaxManualTicks == 3
ManualDelays == {5000, 120000}
ManualReadings == {50, 200}

\* The drain of a queue that no caller adds to any more: the messages queued
\* before, the number of iterations of loop() and the time one takes.
MaxDrainMsgs == 5
MaxDrainTicks == 8
DrainDelays == {60000}

\* The same while the millisecond clock wraps around.
MaxWrapTicks == 6
WrapDelays == {5000, 60000}
WrapReadings == {50, 200}

\* The same from power-up, while the modem initializes.
BootDelays == {5000, 60000}

BootReadings == {50, 200}

VARIABLES
  emptyInterrupted,      \* history: the bowl was seen not empty since bowlEmptyStartTime
  now,                   \* millis()
  ticks,                 \* clock advances so far (bounded by MaxTicks)
  booted,                \* setup() has run
  currentGSMStatus,
  lastGSMStatusCheck,
  gsmInitStartTime,
  gsmInitialized,
  smsInProgress,
  lastSMSSendTime,
  smsQueue,
  queueHead,
  queueTail,
  queueCount,
  lastHighPrioritySMS,
  lastMediumPrioritySMS,
  lastLowPrioritySMS,
  lastConnectionCheck,   \* static local of updateGSMStatus
  lastErrorRecovery,     \* static local of updateGSMStatus
  sensorInitialized,
  currentDistance,
  lastSensorRead,
  bowlEmpty,
  hopperLow,
  lastButtonState,
  lastDebounceTime,
  lastModeState,
  lastModeDebounceTime,
  currentMode,
  systemState,
  motorEnabled,
  motorMoving,
  currentPosition,
  lastMotorAction,
  lastAutoFeedTime,
  lastAutoFeedCheck,
  bowlEmptyStartTime,
  bowlEmptyConfirmed,
  dailyAutoFeedCount,
  dailyResetTime,
  automaticFeedingEnabled,
  lastMaxFeedAlert,      \* static local of handleAutomaticFeeding
  timerStarted,          \* history: bowlEmptyStartTime was set to millis() and not cleared since
  pc,                    \* the call loop() makes next
  loopDrains,            \* processSMSQueue calls of the current iteration of loop()
  nextMsg,               \* identity of the next message handed to queueSMS
  lastTx,                \* per priority: millis() of the last transmission, -1 if none
  lastOp                 \* the operation the last step performed, and its outcome:
                         \*   sent    the items it transmitted to the modem
                         \*   prevTx  lastTx of the transmitted item's priority before it
                         \*   wrote   the indices of smsQueue that queueSMS assigned
                         \*   drains  the number of processSMSQueue calls it made
                         \*   evaluated  handleAutomaticFeeding passed its gates
                         \*   reset, confirmed  it reset the daily count, confirmed the bowl empty
                         \*   cancelled  it cleared a running confirmation timer on a bowl with food
                         \*   feeds   the number of performAutomaticFeed calls it made
                         \*   steps   the portions handed to dispensePortionSmooth
                         \*   alerts  the alert types handed to queueSMS
                         \*   states  the values assigned to systemState

gsmVars == <<currentGSMStatus, lastGSMStatusCheck, gsmInitStartTime, gsmInitialized,
             lastConnectionCheck, lastErrorRecovery>>
queueVars == <<smsInProgress, lastSMSSendTime, smsQueue, queueHead, queueTail, queueCount,
               lastHighPrioritySMS, lastMediumPrioritySMS, lastLowPrioritySMS,
               nextMsg, lastTx>>
sensorVars == <<sensorInitialized, currentDistance, lastSensorRead, bowlEmpty, hopperLow,
               emptyInterrupted>>
inputVars == <<lastButtonState, lastDebounceTime, lastModeState, lastModeDebounceTime,
               currentMode>>
motorVars == <<motorEnabled, motorMoving, currentPosition, lastMotorAction>>
feedVars == <<lastAutoFeedTime, lastAutoFeedCheck, bowlEmptyStartTime, bowlEmptyConfirmed,
              dailyAutoFeedCount, dailyResetTime, automaticFeedingEnabled, lastMaxFeedAlert,
              timerStarted>>
loopVars == <<pc, loopDrains>>
vars == <<now, ticks, booted, gsmVars, queueVars, sensorVars, inputVars, systemState,
          motorVars, feedVars, loopVars, lastOp>>

\* ------------------------------------------------------------- arithmetic
\* a - b on unsigned long.
Sub32(a, b) == (a - b + CLOCK_WRAP) % CLOCK_WRAP

Add32(a, b) == (a + b) % CLOCK_WRAP

\* ------------------------------------------------------------ SMS queue
\* A slot of smsQueue.  msg stands for phoneNumber and message; queueTime is
\* written by queueSMS and read nowhere, the order of the queueSMS calls is
\* carried by msg.
Item(p, m) == [priority |-> p, msg |-> m]

\* A default-constructed SMSQueueItem (static storage: priority 0, empty strings).
EmptyItem == Item(SMS_PRIORITY_HIGH, 0)

\* The part of the module state that queueSMS, sendCustomSMSInternal and
\* processSMSQueue read and write, as one record.
QState == [smsQueue |-> smsQueue, queueHead |-> queueHead, queueTail |-> queueTail,
           queueCount |-> queueCount, smsInProgress |-> smsInProgress,
           lastSMSSendTime |-> lastSMSSendTime,
           lastHighPrioritySMS |-> lastHighPrioritySMS,
           lastMediumPrioritySMS |-> lastMediumPrioritySMS,
           lastLowPrioritySMS |-> lastLowPrioritySMS,
           nextMsg |-> nextMsg, lastTx |-> lastTx,
           sent |-> <<>>, prevTx |-> -1, wrote |-> <<>>, outcome |-> "none"]

\* The queue's logical content, oldest slot first.
QueueSeq(q, head, count) == [i \in 1..count |-> q[(head + (i - 1)) % MAX_SMS_QUEUE]]

\* Mutant: the full test is off by one.
MutQueueFull(count) == count > MAX_SMS_QUEUE

QueueFull(count) == count >= MAX_SMS_QUEUE

\* Mutant: the scan stops one slot early.
RECURSIVE MutLowestScan(_, _, _, _, _)
MutLowestScan(q, head, i, lowestPriority, lowestPriorityIndex) ==
  IF i >= MAX_SMS_QUEUE - 1 THEN <<lowestPriority, lowestPriorityIndex>>
  ELSE LET index == (head + i) % MAX_SMS_QUEUE IN
       IF q[index].priority > lowestPriority
       THEN MutLowestScan(q, head, i + 1, q[index].priority, index)
       ELSE MutLowestScan(q, head, i + 1, lowestPriority, lowestPriorityIndex)

\* queueSMS, the scan for the lowest-priority occupant: <<lowestPriority,
\* lowestPriorityIndex>> after iterations i..MAX_SMS_QUEUE-1.
RECURSIVE LowestScan(_, _, _, _, _)
LowestScan(q, head, i, lowestPriority, lowestPriorityIndex) ==
  IF i >= MAX_SMS_QUEUE THEN <<lowestPriority, lowestPriorityIndex>>
  ELSE LET index == (head + i) % MAX_SMS_QUEUE IN
       IF q[index].priority > lowestPriority
       THEN LowestScan(q, head, i + 1, q[index].priority, index)
       ELSE LowestScan(q, head, i + 1, lowestPriority, lowestPriorityIndex)

\* Mutant: an equal priority replaces too.
MutCanReplace(priority, lowestPriority) == priority <= lowestPriority

CanReplace(priority, lowestPriority) == priority < lowestPriority

\* queueSMS(phoneNumber, message, priority) on state s; m is the message.
QueueSMS(s, m, priority) ==
  LET new == Item(priority, m)
      s1 == s
  IN
  IF QueueFull(s.queueCount)
  THEN LET low == LowestScan(s.smsQueue, s.queueHead, 0, SMS_PRIORITY_HIGH, -1) IN
       IF CanReplace(priority, low[1])
       THEN [s1 EXCEPT !.smsQueue = [s.smsQueue EXCEPT ![low[2]] = new],
                       !.wrote = Append(@, low[2]),
                       !.outcome = "replaced"]
       ELSE [s1 EXCEPT !.outcome = "dropped"]
  ELSE [s1 EXCEPT !.smsQueue = [s.smsQueue EXCEPT ![s.queueTail] = new],
                  !.wrote = Append(@, s.queueTail),
                  !.queueTail = (s.queueTail + 1) % MAX_SMS_QUEUE,
                  !.queueCount = s.queueCount + 1,
                  !.outcome = "queued"]

\* sendCustomSMSInternal: transmit unless the modem is not ready or a send is
\* in flight, in which case the message is queued again with medium priority.
\* smsInProgress is raised and lowered inside the call.
SendCustomSMSInternal(s, status, item, t) ==
  IF status # GSM_SMS_READY \/ s.smsInProgress
  THEN QueueSMS(s, item.msg, SMS_PRIORITY_MEDIUM)
  ELSE [s EXCEPT !.lastSMSSendTime = t,
                 !.sent = Append(@, item),
                 !.prevTx = s.lastTx[item.priority],
                 !.lastTx = [@ EXCEPT ![item.priority] = t]]

\* Mutant: the early return forgets the modem status.
MutDrainBlocked(count, inProgress, status) ==
  count = 0 \/ inProgress

\* processSMSQueue, the early return.
DrainBlocked(count, inProgress, status) ==
  count = 0 \/ inProgress \/ status # GSM_SMS_READY

\* processSMSQueue, the scan for the highest-priority message: <<highestPriority,
\* highestPriorityIndex>> after iterations i..count-1.
RECURSIVE HighestScan(_, _, _, _, _, _)
HighestScan(q, head, count, i, highestPriority, highestPriorityIndex) ==
  IF i >= count THEN <<highestPriority, highestPriorityIndex>>
  ELSE LET index == (head + i) % MAX_SMS_QUEUE IN
       IF q[index].priority < highestPriority
       THEN HighestScan(q, head, count, i + 1, q[index].priority, index)
       ELSE HighestScan(q, head, count, i + 1, highestPriority, highestPriorityIndex)

MinInterval(priority) ==
  CASE priority = SMS_PRIORITY_HIGH -> HIGH_MIN_INTERVAL
    [] priority = SMS_PRIORITY_MEDIUM -> MEDIUM_MIN_INTERVAL
    [] priority = SMS_PRIORITY_LOW -> LOW_MIN_INTERVAL
    [] OTHER -> MEDIUM_MIN_INTERVAL

\* *lastSendTime for the selected priority.
LastSendTime(s, priority) ==
  CASE priority = SMS_PRIORITY_HIGH -> s.lastHighPrioritySMS
    [] priority = SMS_PRIORITY_MEDIUM -> s.lastMediumPrioritySMS
    [] priority = SMS_PRIORITY_LOW -> s.lastLowPrioritySMS
    [] OTHER -> s.lastSMSSendTime

\* Mutant: the stamp goes to the global lastSMSSendTime for every class.
MutStampLastSend(s, priority, t) == [s EXCEPT !.lastSMSSendTime = t]

\* *lastSendTime = currentTime
StampLastSend(s, priority, t) ==
  CASE priority = SMS_PRIORITY_HIGH -> [s EXCEPT !.lastHighPrioritySMS = t]
    [] priority = SMS_PRIORITY_MEDIUM -> [s EXCEPT !.lastMediumPrioritySMS = t]
    [] priority = SMS_PRIORITY_LOW -> [s EXCEPT !.lastLowPrioritySMS = t]
    [] OTHER -> [s EXCEPT !.lastSMSSendTime = t]

\* Mutant: low priority messages are always held back.
MutRateLimited(currentTime, lastSendTime, minInterval) ==
  \/ Sub32(currentTime, lastSendTime) < minInterval
  \/ minInterval = LOW_MIN_INTERVAL

\* processSMSQueue: if (currentTime - *lastSendTime < minInterval) return false
RateLimited(currentTime, lastSendTime, minInterval) ==
  Sub32(currentTime, lastSendTime) < minInterval

\* processSMSQueue, "remove from queue by shifting":
\* for (i = highestPriorityIndex; i != queueTail; i = (i + 1) % MAX_SMS_QUEUE)
\*   smsQueue[i] = smsQueue[(i + 1) % MAX_SMS_QUEUE];
RECURSIVE ShiftRemove(_, _, _)
ShiftRemove(q, i, tail) ==
  IF i = tail THEN q
  ELSE LET nextIndex == (i + 1) % MAX_SMS_QUEUE IN
       ShiftRemove([q EXCEPT ![i] = q[nextIndex]], nextIndex, tail)

\* processSMSQueue() on state s with modem status `status` at millis() = t.
\* The result's sent is empty exactly when the call returns false.
ProcessSMSQueue(s, status, t) ==
  IF DrainBlocked(s.queueCount, s.smsInProgress, status) THEN s
  ELSE
  LET high == HighestScan(s.smsQueue, s.queueHead, s.queueCount, 0,
                          SMS_PRIORITY_LOW + 1, -1)
  IN
  IF high[2] = -1 THEN s
  ELSE IF RateLimited(t, LastSendTime(s, high[1]), MinInterval(high[1])) THEN s
  ELSE
  LET item == s.smsQueue[high[2]]
      s1 == SendCustomSMSInternal(s, status, item, t)
      s2 == [s1 EXCEPT !.smsQueue = ShiftRemove(s1.smsQueue, high[2], s1.queueTail),
                       !.queueCount = s1.queueCount - 1,
                       !.queueTail = (s1.queueTail - 1 + MAX_SMS_QUEUE) % MAX_SMS_QUEUE,
                       !.outcome = "sent"]
  IN StampLastSend(s2, high[1], t)

\* The variables take the values of the record an operation returns.
SetQueue(s) ==
  /\ smsQueue' = s.smsQueue
  /\ queueHead' = s.queueHead
  /\ queueTail' = s.queueTail
  /\ queueCount' = s.queueCount
  /\ smsInProgress' = s.smsInProgress
  /\ lastSMSSendTime' = s.lastSMSSendTime
  /\ lastHighPrioritySMS' = s.lastHighPrioritySMS
  /\ lastMediumPrioritySMS' = s.lastMediumPrioritySMS
  /\ lastLowPrioritySMS' = s.lastLowPrioritySMS
  /\ nextMsg' = s.nextMsg
  /\ lastTx' = s.lastTx

\* What lastOp records of a step.
Op(name, priority, polled, drains, s) ==
  [op |-> name, priority |-> priority, polled |-> polled, drains |-> drains,
   sent |-> s.sent, prevTx |-> s.prevTx, wrote |-> s.wrote, outcome |-> s.outcome,
   evaluated |-> FALSE, reset |-> FALSE, confirmed |-> FALSE, cancelled |-> FALSE,
   cleared |-> 0, feeds |-> 0, steps |-> <<>>, alerts |-> <<>>, states |-> <<>>,
   profile |-> <<>>, pulses |-> 0, fault |-> FALSE, asked |-> 0, reports |-> <<>>,
   wire |-> <<>>, previous |-> <<>>, answered |-> <<>>, pins |-> <<>>]

NoOp == [sent |-> <<>>, prevTx |-> -1, wrote |-> <<>>, outcome |-> "none"]

\* ------------------------------------------------------- modem session
\* initializeGSM: the session restarts.
InitializeGSM(g, t) ==
  [g EXCEPT !.currentGSMStatus = GSM_INITIALIZING,
            !.gsmInitStartTime = t,
            !.gsmInitialized = FALSE]

GState == [currentGSMStatus |-> currentGSMStatus, gsmInitStartTime |-> gsmInitStartTime,
           gsmInitialized |-> gsmInitialized, lastConnectionCheck |-> lastConnectionCheck,
           lastErrorRecovery |-> lastErrorRecovery]

\* Mutant: the poll is not throttled.
MutStatusCheckThrottled(t, lastCheck) == FALSE

\* updateGSMStatus, the early return.
StatusCheckThrottled(t, lastCheck) == Sub32(t, lastCheck) < GSM_STATUS_CHECK_INTERVAL

\* Mutant: the recovery attempt is not timed.
MutRecoverFromError(g, t) == InitializeGSM(g, t)

\* updateGSMStatus, case GSM_ERROR: initializeGSM() and the time of the attempt.
RecoverFromError(g, t) == [InitializeGSM(g, t) EXCEPT !.lastErrorRecovery = t]

\* Mutant: a lost connection is an error.
MutConnectionLost(g, t) ==
  [g EXCEPT !.currentGSMStatus = GSM_ERROR, !.gsmInitStartTime = t]

\* updateGSMStatus, case GSM_SMS_READY: the modem did not answer the
\* connection check, the session is brought up again.
ConnectionLost(g, t) ==
  [g EXCEPT !.currentGSMStatus = GSM_INITIALIZING, !.gsmInitStartTime = t]

\* updateGSMStatus, the switch on currentGSMStatus; ok is whether the modem
\* gives the expected answer to the AT command of the state.
StatusStep(g, ok, t) ==
  CASE g.currentGSMStatus = GSM_INITIALIZING ->
         IF Sub32(t, g.gsmInitStartTime) > GSM_INIT_TIMEOUT
         THEN [g EXCEPT !.currentGSMStatus = GSM_ERROR]
         ELSE IF ok THEN [g EXCEPT !.currentGSMStatus = GSM_NETWORK_SEARCHING]
         ELSE g
    [] g.currentGSMStatus = GSM_NETWORK_SEARCHING ->
         IF ok THEN [g EXCEPT !.currentGSMStatus = GSM_NETWORK_CONNECTED]
         ELSE IF Sub32(t, g.gsmInitStartTime) > GSM_INIT_TIMEOUT * 2
         THEN [g EXCEPT !.currentGSMStatus = GSM_ERROR]
         ELSE g
    [] g.currentGSMStatus = GSM_NETWORK_CONNECTED ->
         IF ok THEN [g EXCEPT !.currentGSMStatus = GSM_SMS_READY, !.gsmInitialized = TRUE]
         ELSE g
    [] g.currentGSMStatus = GSM_SMS_READY ->
         IF Sub32(t, g.lastConnectionCheck) > CONNECTION_CHECK_INTERVAL
         THEN IF ~ok
              THEN [ConnectionLost(g, t) EXCEPT !.lastConnectionCheck = t]
              ELSE [g EXCEPT !.lastConnectionCheck = t]
         ELSE g
    [] g.currentGSMStatus = GSM_ERROR ->
         IF Sub32(t, g.lastErrorRecovery) > ERROR_RECOVERY_INTERVAL
         THEN RecoverFromError(g, t)
         ELSE g
    [] OTHER -> g

SetGSM(g) ==
  /\ currentGSMStatus' = g.currentGSMStatus
  /\ gsmInitStartTime' = g.gsmInitStartTime
  /\ gsmInitialized' = g.gsmInitialized
  /\ lastConnectionCheck' = g.lastConnectionCheck
  /\ lastErrorRecovery' = g.lastErrorRecovery

\* ------------------------------------------------------- bowl classifier
\* What the I2C transfer of one poll gives: the result of endTransmission and
\* of its retry, the number of bytes available, and the three bytes, for a
\* distance of mm millimetres with a right or a wrong checksum.
WireOf(error, retryError, available, mm, checksumOk) ==
  LET highByte == (mm \div 256) % 256
      lowByte == mm % 256
  IN [error |-> error, retryError |-> retryError, available |-> available,
      highByte |-> highByte, lowByte |-> lowByte,
      checksum |-> IF checksumOk THEN (highByte + lowByte) % 256
                   ELSE (highByte + lowByte + 1) % 256]

\* The transfer that gives reading: a write error for no reading.
Wire(reading) ==
  IF reading = NO_READING THEN WireOf(2, 0, 0, 0, TRUE)
  ELSE WireOf(0, 0, 3, reading, TRUE)

\* Mutant: no upper limit on the distance.
MutReadUltrasonicDistance(initialized, wire) ==
  LET distance_mm == (wire.highByte * 256) + wire.lowByte IN
  IF ~initialized THEN NO_READING
  ELSE IF wire.error # 0 /\ (wire.error # 5 \/ wire.retryError # 0) THEN NO_READING
  ELSE IF wire.available < 3 THEN NO_READING
  ELSE IF distance_mm > 0 THEN distance_mm
  ELSE NO_READING

\* readUltrasonicDistance(): the distance in mm (distance_cm is distance_mm /
\* 10.0, so 0 < distance_cm < 500 is 0 < distance_mm < 5000), or -1. A write
\* error 5 is retried once. The checksum is compared and not used.
ReadUltrasonicDistance(initialized, wire) ==
  LET distance_mm == (wire.highByte * 256) + wire.lowByte IN
  IF ~initialized THEN NO_READING
  ELSE IF wire.error # 0 /\ (wire.error # 5 \/ wire.retryError # 0) THEN NO_READING
  ELSE IF wire.available < 3 THEN NO_READING
  ELSE IF distance_mm > 0 /\ distance_mm < 5000 THEN distance_mm
  ELSE NO_READING

\* analyzeBowlStatus, the alert of a change of the bowl.
BowlAlerts(empty, previousBowlEmpty) ==
  IF empty = previousBowlEmpty THEN <<>>
  ELSE IF empty THEN <<"Bowl is now EMPTY">>
  ELSE <<"Bowl now has food">>

\* Mutant: the hopper alerts on every change.
MutHopperAlerts(low, previousHopperLow) ==
  IF low # previousHopperLow THEN <<"Hopper is running LOW or EMPTY">> ELSE <<>>

\* analyzeHopperStatus, the alert of a hopper that became low.
HopperAlerts(low, previousHopperLow) ==
  IF low /\ ~previousHopperLow THEN <<"Hopper is running LOW or EMPTY">> ELSE <<>>

\* Mutant: one threshold, no hysteresis.
MutAnalyzeBowlStatus(distance, previousBowlEmpty) == distance > BOWL_FULL_THRESHOLD

\* analyzeBowlStatus: hysteresis between the two thresholds.
AnalyzeBowlStatus(distance, previousBowlEmpty) ==
  IF distance > BOWL_EMPTY_THRESHOLD THEN TRUE
  ELSE IF distance < BOWL_FULL_THRESHOLD THEN FALSE
  ELSE previousBowlEmpty

\* analyzeHopperStatus: the same on the hopper's thresholds.
AnalyzeHopperStatus(distance, previousHopperLow) ==
  IF distance > HOPPER_EMPTY_THRESHOLD THEN TRUE
  ELSE IF distance < HOPPER_LOW_THRESHOLD THEN FALSE
  ELSE previousHopperLow

SensorReadDue(t, lastRead) == Sub32(t, lastRead) >= SENSOR_READ_INTERVAL

\* ------------------------------------------ controls, motor, feeding policy
\* The state that handleManualControls and handleAutomaticFeeding read and
\* write, as one record; q is the dispatcher's part.  The last fields record
\* what the call did.
WState == [lastButtonState |-> lastButtonState, lastDebounceTime |-> lastDebounceTime,
           lastModeState |-> lastModeState, lastModeDebounceTime |-> lastModeDebounceTime,
           currentMode |-> currentMode, systemState |-> systemState,
           motorEnabled |-> motorEnabled, motorMoving |-> motorMoving,
           currentPosition |-> currentPosition, lastMotorAction |-> lastMotorAction,
           lastAutoFeedTime |-> lastAutoFeedTime, lastAutoFeedCheck |-> lastAutoFeedCheck,
           bowlEmptyStartTime |-> bowlEmptyStartTime,
           bowlEmptyConfirmed |-> bowlEmptyConfirmed,
           dailyAutoFeedCount |-> dailyAutoFeedCount, dailyResetTime |-> dailyResetTime,
           automaticFeedingEnabled |-> automaticFeedingEnabled,
           lastMaxFeedAlert |-> lastMaxFeedAlert, timerStarted |-> timerStarted,
           bowlEmpty |-> bowlEmpty, sensorInitialized |-> sensorInitialized,
           gsmInitialized |-> gsmInitialized, q |-> QState,
           evaluated |-> FALSE, reset |-> FALSE, confirmed |-> FALSE,
           cancelled |-> FALSE, cleared |-> 0, feeds |-> 0,
           steps |-> <<>>, alerts |-> <<>>, states |-> <<>>,
           profile |-> <<>>, pulses |-> 0, fault |-> FALSE, reports |-> <<>>]

SetSystemState(w, state) ==
  [w EXCEPT !.systemState = state, !.states = Append(@, state)]

GetSMSPriority(alertType) ==
  CASE alertType \in {SMS_AUTO_FEED, SMS_MANUAL_FEED, SMS_FEEDING_ERROR} -> SMS_PRIORITY_HIGH
    [] alertType \in {SMS_DAILY_RESET, SMS_BOWL_EMPTY_ALERT} -> SMS_PRIORITY_MEDIUM
    [] OTHER -> SMS_PRIORITY_LOW

\* sendSMSAlert(alertType, additionalInfo): skipped until the modem has been
\* ready once, else the message is handed to queueSMS.
SendSMSAlert(w, alertType) ==
  IF ~w.gsmInitialized THEN w
  ELSE [w EXCEPT !.q = [QueueSMS(w.q, w.q.nextMsg, GetSMSPriority(alertType))
                          EXCEPT !.nextMsg = w.q.nextMsg + 1],
                 !.alerts = Append(@, alertType)]

\* enableMotor()
EnableMotor(w) == [w EXCEPT !.motorEnabled = TRUE]

\* Mutant: the driver stays enabled.
MutDisableMotor(w) == [w EXCEPT !.motorMoving = FALSE]

\* disableMotor()
DisableMotor(w) == [w EXCEPT !.motorEnabled = FALSE, !.motorMoving = FALSE]

\* stepMotor(steps, clockwise): abs(steps) pulses, one position each.
StepMotor(w, steps, clockwise) ==
  IF ~w.motorEnabled THEN [w EXCEPT !.reports = Append(@, "Motor not enabled")]
  ELSE LET n == IF steps < 0 THEN -steps ELSE steps IN
       [w EXCEPT !.pulses = @ + n,
                 !.currentPosition = IF clockwise THEN @ + n ELSE @ - n,
                 !.motorMoving = FALSE]

\* dispensePortion(steps) at time t
DispensePortion(w, steps, t) ==
  IF steps <= 0 THEN [w EXCEPT !.reports = Append(@, "Invalid portion size")]
  ELSE LET w1 == EnableMotor(w)
           w2 == StepMotor([w1 EXCEPT !.steps = Append(@, steps)], steps, TRUE)
           w3 == DisableMotor(w2)
       IN [w3 EXCEPT !.lastMotorAction = t]

\* Mutant: the acceleration phase is not capped by the acceleration parameter.
MutAccelSteps(steps, acceleration) == steps \div 4

\* dispensePortionSmooth, the profile: min(steps / 4, acceleration), for
\* steps > 0.
AccelSteps(steps, acceleration) ==
  IF steps \div 4 < acceleration THEN steps \div 4 ELSE acceleration

CruiseSteps(steps, accelSteps) == steps - (2 * accelSteps)

DecelSteps(accelSteps) == accelSteps

\* 1000000UL / maxSpeed (microseconds)
TargetDelay(maxSpeed) == 1000000 \div maxSpeed

\* (currentDelay - targetDelay) / accelSteps, for accelSteps # 0
DelayStep(maxSpeed, accelSteps) == (MAX_STEP_DELAY - TargetDelay(maxSpeed)) \div accelSteps

\* The delays (microseconds) of the acceleration loop: currentDelay starts at
\* MAX_STEP_DELAY and loses delayStep after each pulse.
AccelDelays(accelSteps, delayStep) ==
  [i \in 1..accelSteps |-> MAX_STEP_DELAY - ((i - 1) * delayStep)]

\* The delays of the deceleration loop: currentDelay starts where the
\* acceleration loop left it and gains delayStep after each pulse.
DecelDelays(decelSteps, accelSteps, delayStep) ==
  [i \in 1..decelSteps |-> (MAX_STEP_DELAY - (accelSteps * delayStep)) + ((i - 1) * delayStep)]

\* dispensePortionSmooth(steps, maxSpeed, acceleration) at time t. The pulses
\* are the iterations of the three loops. With accelSteps = 0 the division
\* that computes delayStep is a division by zero, which is undefined: trap
\* says whether it stops the program there (the driver enabled, no pulse
\* emitted) or the call goes on, no loop using delayStep.
DispensePortionSmooth(w, steps, maxSpeed, acceleration, t, trap) ==
  IF steps <= 0 THEN w
  ELSE
  LET accelSteps == AccelSteps(steps, acceleration)
      cruiseSteps == CruiseSteps(steps, accelSteps)
      decelSteps == DecelSteps(accelSteps)
      delayStep == IF accelSteps = 0 THEN 0 ELSE DelayStep(maxSpeed, accelSteps)
      w1 == [w EXCEPT !.motorEnabled = TRUE,
                      !.motorMoving = TRUE,
                      !.steps = Append(@, steps),
                      !.profile = Append(@, [accelSteps |-> accelSteps,
                                             cruiseSteps |-> cruiseSteps,
                                             decelSteps |-> decelSteps,
                                             acceleration |-> acceleration,
                                             delayStep |-> delayStep,
                                             accelDelays |-> AccelDelays(accelSteps, delayStep),
                                             cruiseDelay |-> TargetDelay(maxSpeed),
                                             decelDelays |-> DecelDelays(decelSteps, accelSteps,
                                                                         delayStep)])]
  IN IF accelSteps = 0 /\ trap
     THEN [w1 EXCEPT !.fault = TRUE]
     ELSE [DisableMotor([w1 EXCEPT !.pulses = @ + accelSteps + cruiseSteps + decelSteps,
                                   !.currentPosition = @ + steps,
                                   !.motorMoving = FALSE])
             EXCEPT !.lastMotorAction = t]

\* Mutant: a manual feed counts as an automatic feed.
MutManualFeed(w, t) ==
  LET portionSteps == IF w.currentMode = CAT_MODE THEN CAT_MIN_PORTION
                      ELSE DOG_MIN_PORTION
      w1 == SetSystemState(w, MANUAL_FEEDING)
      w2 == DispensePortionSmooth(w1, portionSteps, MOTOR_SPEED, MOTOR_ACCELERATION, t, FALSE)
  IN SetSystemState([w2 EXCEPT !.lastAutoFeedTime = t], IDLE)

\* manualFeed(): the minimum portion of the current mode. Its accelSteps is
\* MOTOR_ACCELERATION, never 0, so no division by zero is met.
ManualFeed(w, t) ==
  LET portionSteps == IF w.currentMode = CAT_MODE THEN CAT_MIN_PORTION
                      ELSE DOG_MIN_PORTION
      w1 == SetSystemState(w, MANUAL_FEEDING)
      w2 == DispensePortionSmooth(w1, portionSteps, MOTOR_SPEED, MOTOR_ACCELERATION, t, FALSE)
  IN SetSystemState(w2, IDLE)

\* Mutant: the state of the pin is kept only when a press is reported.
MutSampleButton(lastState, lastDebounce, currentState, t) ==
  LET buttonPressed == /\ lastState = HIGH
                       /\ currentState = LOW
                       /\ Sub32(t, lastDebounce) > DEBOUNCE_DELAY
  IN <<buttonPressed,
       IF buttonPressed \/ currentState = HIGH THEN currentState ELSE lastState,
       IF buttonPressed THEN t ELSE lastDebounce>>

\* Mutant: an edge at exactly DEBOUNCE_DELAY is a press.
MutDebounceAtDelay(lastState, lastDebounce, currentState, t) ==
  LET buttonPressed == /\ lastState = HIGH
                       /\ currentState = LOW
                       /\ Sub32(t, lastDebounce) >= DEBOUNCE_DELAY
  IN <<buttonPressed, currentState, IF buttonPressed THEN t ELSE lastDebounce>>

\* Mutant: every HIGH->LOW edge is a press.
MutReadButtonWithDebounce(lastState, lastDebounce, currentState, t) ==
  LET buttonPressed == lastState = HIGH /\ currentState = LOW
  IN <<buttonPressed, currentState, IF buttonPressed THEN t ELSE lastDebounce>>

\* readButtonWithDebounce(pin, lastState, lastDebounceTime) with digitalRead(pin)
\* = currentState: <<buttonPressed, lastState, lastDebounceTime>> on return.
ReadButtonWithDebounce(lastState, lastDebounce, currentState, t) ==
  LET buttonPressed == /\ lastState = HIGH
                       /\ currentState = LOW
                       /\ Sub32(t, lastDebounce) > DEBOUNCE_DELAY
  IN <<buttonPressed, currentState, IF buttonPressed THEN t ELSE lastDebounce>>

\* handleManualControls() with the levels of the two pins.
HandleManualControls(w, feedPin, modePin, t) ==
  LET feed == ReadButtonWithDebounce(w.lastButtonState, w.lastDebounceTime, feedPin, t)
      w1 == [w EXCEPT !.lastButtonState = feed[2], !.lastDebounceTime = feed[3]]
      w2 == IF feed[1] THEN SendSMSAlert(ManualFeed(w1, t), SMS_MANUAL_FEED) ELSE w1
      mode == ReadButtonWithDebounce(w2.lastModeState, w2.lastModeDebounceTime, modePin, t)
      w3 == [w2 EXCEPT !.lastModeState = mode[2], !.lastModeDebounceTime = mode[3]]
  IN IF mode[1]
     THEN [w3 EXCEPT !.currentMode = IF @ = CAT_MODE THEN DOG_MODE ELSE CAT_MODE]
     ELSE w3

\* Mutant: the reset does not restart the 24 h window.
MutResetDailyFeedCount(w, t) ==
  SendSMSAlert([w EXCEPT !.dailyAutoFeedCount = 0,
                         !.reset = TRUE,
                         !.cleared = w.dailyAutoFeedCount],
               SMS_DAILY_RESET)

\* resetDailyFeedCount()
ResetDailyFeedCount(w, t) ==
  SendSMSAlert([w EXCEPT !.dailyAutoFeedCount = 0,
                         !.dailyResetTime = t,
                         !.reset = TRUE,
                         !.cleared = w.dailyAutoFeedCount],
               SMS_DAILY_RESET)

\* Mutant: the confirmation is not cleared after the feed.
MutPerformAutomaticFeed(w, t) ==
  LET w1 == SetSystemState(w, DISPENSING)
      w2 == ManualFeed(w1, t)
      w3 == [w2 EXCEPT !.lastAutoFeedTime = t,
                       !.dailyAutoFeedCount = @ + 1,
                       !.feeds = @ + 1]
      w4 == SendSMSAlert(w3, SMS_AUTO_FEED)
  IN SetSystemState(w4, IDLE)

\* Mutant: the feed leaves bowlEmptyConfirmed set.
MutFeedKeepsConfirmed(w, t) ==
  LET w1 == SetSystemState(w, DISPENSING)
      w2 == ManualFeed(w1, t)
      w3 == [w2 EXCEPT !.lastAutoFeedTime = t,
                       !.dailyAutoFeedCount = @ + 1,
                       !.bowlEmptyStartTime = 0,
                       !.timerStarted = FALSE,
                       !.feeds = @ + 1]
      w4 == SendSMSAlert(w3, SMS_AUTO_FEED)
  IN SetSystemState(w4, IDLE)

\* performAutomaticFeed(): the portion is dispensed by manualFeed().
PerformAutomaticFeed(w, t) ==
  LET w1 == SetSystemState(w, DISPENSING)
      w2 == ManualFeed(w1, t)
      w3 == [w2 EXCEPT !.lastAutoFeedTime = t,
                       !.dailyAutoFeedCount = @ + 1,
                       !.bowlEmptyConfirmed = FALSE,
                       !.bowlEmptyStartTime = 0,
                       !.timerStarted = FALSE,
                       !.feeds = @ + 1]
      w4 == SendSMSAlert(w3, SMS_AUTO_FEED)
  IN SetSystemState(w4, IDLE)

\* Mutant: a bowl with food does not reset the confirmation.
MutConfirmBowlEmpty(w, t) ==
  IF w.bowlEmpty
  THEN IF w.bowlEmptyStartTime = 0
       THEN [w EXCEPT !.bowlEmptyStartTime = t, !.bowlEmptyConfirmed = FALSE,
                      !.timerStarted = TRUE]
       ELSE IF /\ ~w.bowlEmptyConfirmed
               /\ Sub32(t, w.bowlEmptyStartTime) > BOWL_EMPTY_CONFIRMATION_TIME
       THEN [w EXCEPT !.bowlEmptyConfirmed = TRUE, !.confirmed = TRUE]
       ELSE w
  ELSE w

\* handleAutomaticFeeding, the bowl empty confirmation logic.
ConfirmBowlEmpty(w, t) ==
  IF w.bowlEmpty
  THEN IF w.bowlEmptyStartTime = 0
       THEN [w EXCEPT !.bowlEmptyStartTime = t, !.bowlEmptyConfirmed = FALSE,
                      !.timerStarted = TRUE]
       ELSE IF /\ ~w.bowlEmptyConfirmed
               /\ Sub32(t, w.bowlEmptyStartTime) > BOWL_EMPTY_CONFIRMATION_TIME
       THEN [w EXCEPT !.bowlEmptyConfirmed = TRUE, !.confirmed = TRUE]
       ELSE w
  ELSE [w EXCEPT !.bowlEmptyStartTime = 0, !.bowlEmptyConfirmed = FALSE,
                 !.timerStarted = FALSE,
                 !.cancelled = (w.bowlEmptyStartTime # 0)]

\* handleAutomaticFeeding, the test of the daily reset.
DailyResetDue(t, resetTime) == Sub32(t, resetTime) > DAILY_RESET_INTERVAL

\* Mutant: the quota test is off by one.
MutQuotaExhausted(count) == count > MAX_DAILY_AUTO_FEEDS

\* handleAutomaticFeeding, the daily feed limit.
QuotaExhausted(count) == count >= MAX_DAILY_AUTO_FEEDS

\* Mutant: no minimum interval between automatic feeds.
MutMinIntervalBlocked(t, lastFeed) == FALSE

\* handleAutomaticFeeding, the minimum interval between automatic feeds,
\* skipped while lastAutoFeedTime is 0.
MinIntervalBlocked(t, lastFeed) ==
  lastFeed # 0 /\ Sub32(t, lastFeed) < AUTO_FEED_MIN_INTERVAL

\* Mutant: the alert of the exhausted quota has no hourly limit.
MutMaxFeedAlertDue(t, lastAlert) == TRUE

\* handleAutomaticFeeding, the hourly limit of the alert sent while the quota
\* is exhausted and the bowl is empty.
MaxFeedAlertDue(t, lastAlert) == Sub32(t, lastAlert) > MAX_FEED_ALERT_INTERVAL

\* handleAutomaticFeeding()
HandleAutomaticFeeding(w, t) ==
  LET w1 == IF DailyResetDue(t, w.dailyResetTime)
            THEN ResetDailyFeedCount(w, t)
            ELSE w
  IN
  IF ~w1.automaticFeedingEnabled THEN w1
  ELSE IF QuotaExhausted(w1.dailyAutoFeedCount)
  THEN IF w1.bowlEmpty /\ MaxFeedAlertDue(t, w1.lastMaxFeedAlert)
       THEN [SendSMSAlert(w1, SMS_BOWL_EMPTY_ALERT) EXCEPT !.lastMaxFeedAlert = t]
       ELSE w1
  ELSE IF MinIntervalBlocked(t, w1.lastAutoFeedTime) THEN w1
  ELSE IF Sub32(t, w1.lastAutoFeedCheck) < AUTO_FEED_CHECK_INTERVAL THEN w1
  ELSE
  LET w2 == [w1 EXCEPT !.lastAutoFeedCheck = t, !.evaluated = TRUE]
      w3 == ConfirmBowlEmpty(w2, t)
  IN IF w3.bowlEmptyConfirmed /\ w3.sensorInitialized
     THEN PerformAutomaticFeed(w3, t)
     ELSE w3

\* The variables take the values of the record a handler returns.
SetWorld(w) ==
  /\ lastButtonState' = w.lastButtonState
  /\ lastDebounceTime' = w.lastDebounceTime
  /\ lastModeState' = w.lastModeState
  /\ lastModeDebounceTime' = w.lastModeDebounceTime
  /\ currentMode' = w.currentMode
  /\ systemState' = w.systemState
  /\ motorEnabled' = w.motorEnabled
  /\ motorMoving' = w.motorMoving
  /\ currentPosition' = w.currentPosition
  /\ lastMotorAction' = w.lastMotorAction
  /\ lastAutoFeedTime' = w.lastAutoFeedTime
  /\ lastAutoFeedCheck' = w.lastAutoFeedCheck
  /\ bowlEmptyStartTime' = w.bowlEmptyStartTime
  /\ bowlEmptyConfirmed' = w.bowlEmptyConfirmed
  /\ dailyAutoFeedCount' = w.dailyAutoFeedCount
  /\ dailyResetTime' = w.dailyResetTime
  /\ automaticFeedingEnabled' = w.automaticFeedingEnabled
  /\ lastMaxFeedAlert' = w.lastMaxFeedAlert
  /\ timerStarted' = w.timerStarted
  /\ SetQueue(w.q)

\* What lastOp records of a call of handleManualControls or handleAutomaticFeeding.
WOp(name, w) ==
  [Op(name, -1, FALSE, 0, w.q) EXCEPT !.evaluated = w.evaluated,
                                      !.reset = w.reset,
                                      !.confirmed = w.confirmed,
                                      !.cancelled = w.cancelled,
                                      !.cleared = w.cleared,
                                      !.feeds = w.feeds,
                                      !.steps = w.steps,
                                      !.alerts = w.alerts,
                                      !.states = w.states,
                                      !.profile = w.profile,
                                      !.pulses = w.pulses,
                                      !.fault = w.fault,
                                      !.reports = w.reports]

\* ------------------------------------------------------------- actions
\* The state of the static initializers, before setup().
Init ==
  /\ now = 0
  /\ ticks = 0
  /\ booted = FALSE
  /\ currentGSMStatus = GSM_OFFLINE
  /\ lastGSMStatusCheck = 0
  /\ gsmInitStartTime = 0
  /\ gsmInitialized = FALSE
  /\ smsInProgress = FALSE
  /\ lastSMSSendTime = 0
  /\ smsQueue = [i \in 0..(MAX_SMS_QUEUE - 1) |-> EmptyItem]
  /\ queueHead = 0
  /\ queueTail = 0
  /\ queueCount = 0
  /\ lastHighPrioritySMS = 0
  /\ lastMediumPrioritySMS = 0
  /\ lastLowPrioritySMS = 0
  /\ lastConnectionCheck = 0
  /\ lastErrorRecovery = 0
  /\ sensorInitialized = FALSE
  /\ currentDistance = 0
  /\ lastSensorRead = 0
  /\ bowlEmpty = FALSE
  /\ hopperLow = FALSE
  /\ lastButtonState = HIGH
  /\ lastDebounceTime = 0
  /\ lastModeState = HIGH
  /\ lastModeDebounceTime = 0
  /\ currentMode = CAT_MODE
  /\ systemState = IDLE
  /\ motorEnabled = FALSE
  /\ motorMoving = FALSE
  /\ currentPosition = 0
  /\ lastMotorAction = 0
  /\ lastAutoFeedTime = 0
  /\ lastAutoFeedCheck = 0
  /\ bowlEmptyStartTime = 0
  /\ bowlEmptyConfirmed = FALSE
  /\ dailyAutoFeedCount = 0
  /\ dailyResetTime = 0
  /\ automaticFeedingEnabled = TRUE
  /\ lastMaxFeedAlert = 0
  /\ timerStarted = FALSE
  /\ emptyInterrupted = FALSE
  /\ pc = "updateSensorReadings"
  /\ loopDrains = 0
  /\ nextMsg = 1
  /\ lastTx = [p \in Priorities |-> -1]
  /\ lastOp = Op("init", -1, FALSE, 0, NoOp)

\* setup(): initializeSystem() probes the sensor, takes a first reading,
\* initializes the motor and the modem session, reads the two pins and resets
\* the variables of the feeding policy.  sensors, readings and pins are the
\* answers of the hardware.
Setup(sensors, readings, pins) ==
  /\ ~booted
  /\ \E d \in SetupDurations, sensorFound \in sensors, reading \in readings,
        feedPin \in pins, modePin \in pins :
       /\ now' = d
       /\ sensorInitialized' = sensorFound
       /\ currentDistance' = IF sensorFound /\ reading > 0 THEN reading ELSE currentDistance
       /\ SetGSM(InitializeGSM(GState, d))
       /\ lastButtonState' = feedPin
       /\ lastModeState' = modePin
       /\ currentMode' = IF modePin = LOW THEN DOG_MODE ELSE CAT_MODE
       /\ dailyResetTime' = d
  /\ motorEnabled' = FALSE
  /\ motorMoving' = FALSE
  /\ lastAutoFeedTime' = 0
  /\ lastAutoFeedCheck' = 0
  /\ bowlEmptyStartTime' = 0
  /\ timerStarted' = FALSE
  /\ bowlEmptyConfirmed' = FALSE
  /\ dailyAutoFeedCount' = 0
  /\ automaticFeedingEnabled' = TRUE
  /\ booted' = TRUE
  /\ lastOp' = Op("setup", -1, FALSE, 0, NoOp)
  /\ UNCHANGED <<ticks, lastGSMStatusCheck, queueVars, lastSensorRead, bowlEmpty, hopperLow,
                 emptyInterrupted,
                 lastDebounceTime, lastModeDebounceTime, systemState, currentPosition,
                 lastMotorAction, lastMaxFeedAlert, loopVars>>

\* Time passes.
Tick(maxTicks, delays) ==
  /\ booted
  /\ ticks < maxTicks
  /\ \E d \in delays : now' = Add32(now, d)
  /\ ticks' = ticks + 1
  /\ lastOp' = Op("tick", -1, FALSE, 0, NoOp)
  /\ UNCHANGED <<booted, gsmVars, queueVars, sensorVars, inputVars, systemState, motorVars,
                 feedVars>>

\* sendCustomSMS(phoneNumber, message, priority), sendHighPrioritySMS: a caller
\* hands a new message to queueSMS.
SendCustomSMS(maxMsgs) ==
  /\ booted
  /\ nextMsg <= maxMsgs
  /\ \E priority \in Priorities :
       LET s == QueueSMS(QState, nextMsg, priority) IN
       /\ SetQueue([s EXCEPT !.nextMsg = nextMsg + 1])
       /\ lastOp' = Op("queueSMS", priority, FALSE, 0, s)
  /\ UNCHANGED <<now, ticks, booted, gsmVars, sensorVars, inputVars, systemState, motorVars,
                 feedVars>>

\* A direct call of processSMSQueue(), which gsm.h exports.
ProcessSMSQueueCall ==
  /\ booted
  /\ LET s == ProcessSMSQueue(QState, currentGSMStatus, now) IN
       /\ SetQueue(s)
       /\ lastOp' = Op("processSMSQueue", -1, FALSE, 1, s)
  /\ UNCHANGED <<now, ticks, booted, gsmVars, sensorVars, inputVars, systemState, motorVars,
                 feedVars>>

\* updateSensorReadings(): once SENSOR_READ_INTERVAL has passed, a reading is
\* taken and, when it is valid, classified.  The hopper alert sets systemState
\* to ALERT_EMPTY_HOPPER and back to IDLE.
UpdateSensorReadingsFrom(wires) ==
  /\ booted
  /\ IF SensorReadDue(now, lastSensorRead)
     THEN /\ lastSensorRead' = now
          /\ IF sensorInitialized
             THEN \E wire \in wires :
                    LET newDistance == ReadUltrasonicDistance(sensorInitialized, wire) IN
                    IF newDistance > 0
                    THEN LET empty == AnalyzeBowlStatus(newDistance, bowlEmpty)
                             low == AnalyzeHopperStatus(newDistance, hopperLow) IN
                         /\ currentDistance' = newDistance
                         /\ bowlEmpty' = empty
                         /\ hopperLow' = low
                         /\ emptyInterrupted' = (emptyInterrupted
                                                  \/ (bowlEmptyStartTime # 0 /\ ~empty))
                         /\ systemState' = IF low /\ ~hopperLow THEN IDLE ELSE systemState
                         /\ lastOp' = [Op("updateSensorReadings", -1, TRUE, 0, NoOp)
                                         EXCEPT !.states = IF low /\ ~hopperLow
                                                           THEN <<ALERT_EMPTY_HOPPER, IDLE>>
                                                           ELSE <<>>,
                                                !.reports = BowlAlerts(empty, bowlEmpty)
                                                              \o HopperAlerts(low, hopperLow),
                                                !.wire = <<wire>>,
                                                !.previous = <<bowlEmpty, hopperLow>>]
                    ELSE /\ lastOp' = [Op("updateSensorReadings", -1, TRUE, 0, NoOp)
                                         EXCEPT !.wire = <<wire>>]
                         /\ UNCHANGED <<currentDistance, bowlEmpty, hopperLow, systemState,
                                        emptyInterrupted>>
             ELSE /\ lastOp' = Op("updateSensorReadings", -1, TRUE, 0, NoOp)
                  /\ UNCHANGED <<currentDistance, bowlEmpty, hopperLow, systemState,
                                 emptyInterrupted>>
     ELSE /\ lastOp' = Op("updateSensorReadings", -1, FALSE, 0, NoOp)
          /\ UNCHANGED <<sensorVars, systemState>>
  /\ UNCHANGED <<sensorInitialized, now, ticks, booted, gsmVars, queueVars, inputVars,
                 motorVars, feedVars>>

\* updateSensorReadings() when the sensor answers with one of readings
\* (distances in mm, or no reading).
UpdateSensorReadings(readings) == UpdateSensorReadingsFrom({Wire(r) : r \in readings})

\* updateGSMStatus(): the throttle, the session state machine, then the drain.
UpdateGSMStatusFrom(answers) ==
  /\ booted
  /\ IF StatusCheckThrottled(now, lastGSMStatusCheck)
     THEN /\ lastOp' = Op("updateGSMStatus", -1, FALSE, 0, NoOp)
          /\ UNCHANGED <<gsmVars, queueVars>>
     ELSE \E ok \in answers :
          \E g \in {StatusStep(GState, ok, now)} :
          \E s \in {ProcessSMSQueue(QState, g.currentGSMStatus, now)} :
          /\ lastGSMStatusCheck' = now
          /\ SetGSM(g)
          /\ SetQueue(s)
          /\ lastOp' = [Op("updateGSMStatus", -1, TRUE, 1, s) EXCEPT !.answered = <<ok>>]
  /\ UNCHANGED <<now, ticks, booted, sensorVars, inputVars, systemState, motorVars,
                 feedVars>>

\* The same, the modem answering the AT command of the state or not.
UpdateGSMStatus == UpdateGSMStatusFrom(BOOLEAN)

\* handleManualControls(); the levels of the two pins are the environment's.
HandleManualControlsFrom(feedPins, modePins) ==
  /\ booted
  /\ \E feedPin \in feedPins, modePin \in modePins :
       LET w == HandleManualControls(WState, feedPin, modePin, now) IN
       /\ SetWorld(w)
       /\ lastOp' = [WOp("handleManualControls", w) EXCEPT !.pins = <<feedPin, modePin>>]
  /\ UNCHANGED <<now, ticks, booted, gsmVars, sensorVars>>

\* The same, the two buttons pressed or released at will.
HandleManualControlsCall == HandleManualControlsFrom({HIGH, LOW}, {HIGH, LOW})

\* handleAutomaticFeeding()
DispensePortionSmoothCall(stepCounts, accelerations) ==
  /\ booted
  /\ \E steps \in stepCounts, acceleration \in accelerations, trap \in BOOLEAN :
       LET w == DispensePortionSmooth(WState, steps, MOTOR_SPEED, acceleration, now, trap) IN
       /\ SetWorld(w)
       /\ lastOp' = [WOp("dispensePortionSmooth", w) EXCEPT !.asked = steps]
  /\ UNCHANGED <<now, ticks, booted, gsmVars, sensorVars>>

DispensePortionCall(stepCounts) ==
  /\ booted
  /\ \E steps \in stepCounts :
       LET w == DispensePortion(WState, steps, now) IN
       /\ SetWorld(w)
       /\ lastOp' = [WOp("dispensePortion", w) EXCEPT !.asked = steps]
  /\ UNCHANGED <<now, ticks, booted, gsmVars, sensorVars>>

HandleAutomaticFeedingCall ==
  /\ booted
  /\ LET w == HandleAutomaticFeeding(WState, now) IN
       /\ SetWorld(w)
       /\ lastOp' = WOp("handleAutomaticFeeding", w)
       /\ emptyInterrupted' = IF w.bowlEmptyStartTime # bowlEmptyStartTime THEN FALSE
                              ELSE emptyInterrupted
  /\ UNCHANGED <<now, ticks, booted, gsmVars, sensorInitialized, currentDistance,
                 lastSensorRead, bowlEmpty, hopperLow>>

\* ---------------------------------------------------------------- loop()
\* One call of loop(), at the position pc; the call after it is next.
LoopCall(at, call, next) ==
  /\ pc = at
  /\ call
  /\ pc' = next
  /\ loopDrains' = loopDrains + lastOp'.drains

LoopUpdateSensorReadings ==
  LoopCall("updateSensorReadings", UpdateSensorReadings(LoopReadings), "updateGSMStatus")

\* Mutant: loop() goes from the modem to the feeding policy.
MutLoopUpdateGSMStatus ==
  LoopCall("updateGSMStatus", UpdateGSMStatus, "handleAutomaticFeeding")

LoopUpdateGSMStatus ==
  LoopCall("updateGSMStatus", UpdateGSMStatus, "handleManualControls")

LoopHandleManualControls ==
  LoopCall("handleManualControls", HandleManualControlsCall, "handleAutomaticFeeding")

LoopHandleAutomaticFeeding ==
  LoopCall("handleAutomaticFeeding", HandleAutomaticFeedingCall, "delay")

\* delay(10) ends the iteration; the time the iteration took passes.
LoopDelay ==
  /\ pc = "delay"
  /\ Tick(MaxLoops, LoopDelays)
  /\ pc' = "updateSensorReadings"
  /\ loopDrains' = 0

\* ------------------------------------------------------ specifications
\* A handler called outside loop(): the position in loop() stays.
Call(call) == call /\ UNCHANGED loopVars

\* The dispatcher and the modem session from power-on.
Next ==
  \/ Setup({TRUE}, {NO_READING}, {HIGH})
  \/ Call(Tick(MaxTicks, Delays))
  \/ Call(SendCustomSMS(MaxMsgs))
  \/ Call(ProcessSMSQueueCall)
  \/ Call(UpdateGSMStatus)

Spec == Init /\ [][Next]_vars

\* The state Spec reaches when the modem answered the three polls of its
\* bring-up (at 10 s, 20 s and 30 s) and two minutes passed with no message.
InitReadyWith(sensorFound) ==
  /\ now = 150000
  /\ ticks = 0
  /\ booted = TRUE
  /\ currentGSMStatus = GSM_SMS_READY
  /\ lastGSMStatusCheck = 30000
  /\ gsmInitStartTime = 5000
  /\ gsmInitialized = TRUE
  /\ smsInProgress = FALSE
  /\ lastSMSSendTime = 0
  /\ smsQueue = [i \in 0..(MAX_SMS_QUEUE - 1) |-> EmptyItem]
  /\ queueHead = 0
  /\ queueTail = 0
  /\ queueCount = 0
  /\ lastHighPrioritySMS = 0
  /\ lastMediumPrioritySMS = 0
  /\ lastLowPrioritySMS = 0
  /\ lastConnectionCheck = 0
  /\ lastErrorRecovery = 0
  /\ sensorInitialized = sensorFound
  /\ currentDistance = 0
  /\ lastSensorRead = 0
  /\ bowlEmpty = FALSE
  /\ hopperLow = FALSE
  /\ lastButtonState = HIGH
  /\ lastDebounceTime = 0
  /\ lastModeState = HIGH
  /\ lastModeDebounceTime = 0
  /\ currentMode = CAT_MODE
  /\ systemState = IDLE
  /\ motorEnabled = FALSE
  /\ motorMoving = FALSE
  /\ currentPosition = 0
  /\ lastMotorAction = 0
  /\ lastAutoFeedTime = 0
  /\ lastAutoFeedCheck = 0
  /\ bowlEmptyStartTime = 0
  /\ bowlEmptyConfirmed = FALSE
  /\ dailyAutoFeedCount = 0
  /\ dailyResetTime = 5000
  /\ automaticFeedingEnabled = TRUE
  /\ lastMaxFeedAlert = 0
  /\ timerStarted = FALSE
  /\ emptyInterrupted = FALSE
  /\ pc = "updateSensorReadings"
  /\ loopDrains = 0
  /\ nextMsg = 1
  /\ lastTx = [p \in Priorities |-> -1]
  /\ lastOp = Op("tick", -1, FALSE, 0, NoOp)

InitReady == InitReadyWith(TRUE)

\* The queue operations on a ready modem.
NextQueue ==
  \/ Call(Tick(MaxQueueTicks, QueueDelays))
  \/ Call(SendCustomSMS(MaxQueueMsgs))
  \/ Call(ProcessSMSQueueCall)

SpecQueue == InitReady /\ [][NextQueue]_vars

\* loop() from power-on, its calls in their order.
NextLoop ==
  \/ Setup(BOOLEAN, {NO_READING}, {HIGH})
  \/ LoopUpdateSensorReadings
  \/ LoopUpdateGSMStatus
  \/ LoopHandleManualControls
  \/ LoopHandleAutomaticFeeding
  \/ LoopDelay

SpecLoop == Init /\ [][NextLoop]_vars

\* The bowl classifier and the feeding policy on a ready modem.
NextFeed ==
  \/ Call(Tick(MaxFeedTicks, FeedDelays))
  \/ Call(UpdateSensorReadings(FeedReadings))
  \/ Call(HandleAutomaticFeedingCall)

SpecFeed == InitReady /\ [][NextFeed]_vars

\* The same over days, the bowl staying empty: the daily quota and its reset.
\* The handlers run in the order loop() calls them: call runs after the
\* operation named after.
InOrder(after, call) == lastOp.op = after /\ Call(call)

NextQuota ==
  \/ InOrder("handleAutomaticFeeding", Tick(MaxQuotaTicks, QuotaDelays))
  \/ InOrder("tick", UpdateSensorReadings(QuotaReadings))
  \/ InOrder("updateSensorReadings", HandleAutomaticFeedingCall)

SpecQuota == InitReady /\ [][NextQuota]_vars

\* The same over hours: the quota is used up and the bowl stays empty or is
\* filled by hand.
NextAlert ==
  \/ InOrder("handleAutomaticFeeding", Tick(MaxAlertTicks, AlertDelays))
  \/ InOrder("tick", UpdateSensorReadings(AlertReadings))
  \/ InOrder("updateSensorReadings", HandleAutomaticFeedingCall)

SpecAlert == InitReady /\ [][NextAlert]_vars

\* A state after days of running, 65 s before the millisecond clock wraps:
\* the modem is ready, the last automatic feed was two hours ago and the
\* daily reset an hour ago, their two alerts were sent at the status poll
\* after them, the bowl has food, the buttons were never pressed.
InitWrap ==
  /\ now = CLOCK_WRAP - 65000
  /\ ticks = 0
  /\ booted = TRUE
  /\ currentGSMStatus = GSM_SMS_READY
  /\ lastGSMStatusCheck = CLOCK_WRAP - 70000
  /\ gsmInitStartTime = 5000
  /\ gsmInitialized = TRUE
  /\ smsInProgress = FALSE
  /\ lastSMSSendTime = CLOCK_WRAP - 3655000
  /\ smsQueue = [i \in 0..(MAX_SMS_QUEUE - 1) |-> EmptyItem]
  /\ queueHead = 0
  /\ queueTail = 0
  /\ queueCount = 0
  /\ lastHighPrioritySMS = CLOCK_WRAP - 7255000
  /\ lastMediumPrioritySMS = CLOCK_WRAP - 3655000
  /\ lastLowPrioritySMS = 0
  /\ lastConnectionCheck = CLOCK_WRAP - 100000
  /\ lastErrorRecovery = 0
  /\ sensorInitialized = TRUE
  /\ currentDistance = 50
  /\ lastSensorRead = CLOCK_WRAP - 66000
  /\ bowlEmpty = FALSE
  /\ hopperLow = FALSE
  /\ lastButtonState = HIGH
  /\ lastDebounceTime = 0
  /\ lastModeState = HIGH
  /\ lastModeDebounceTime = 0
  /\ currentMode = CAT_MODE
  /\ systemState = IDLE
  /\ motorEnabled = FALSE
  /\ motorMoving = FALSE
  /\ currentPosition = CAT_MIN_PORTION
  /\ lastMotorAction = CLOCK_WRAP - 7265000
  /\ lastAutoFeedTime = CLOCK_WRAP - 7265000
  /\ lastAutoFeedCheck = CLOCK_WRAP - 70000
  /\ bowlEmptyStartTime = 0
  /\ bowlEmptyConfirmed = FALSE
  /\ dailyAutoFeedCount = 0
  /\ dailyResetTime = CLOCK_WRAP - 3665000
  /\ automaticFeedingEnabled = TRUE
  /\ lastMaxFeedAlert = 0
  /\ timerStarted = FALSE
  /\ emptyInterrupted = FALSE
  /\ pc = "updateSensorReadings"
  /\ loopDrains = 0
  /\ nextMsg = 1
  /\ lastTx = [p \in Priorities |->
                IF p = SMS_PRIORITY_HIGH THEN CLOCK_WRAP - 7255000
                ELSE IF p = SMS_PRIORITY_MEDIUM THEN CLOCK_WRAP - 3655000
                ELSE -1]
  /\ lastOp = Op("tick", -1, FALSE, 0, NoOp)

\* The bowl classifier and the feeding policy while the clock wraps.
NextWrap ==
  \/ Call(Tick(MaxWrapTicks, WrapDelays))
  \/ Call(UpdateSensorReadings(WrapReadings))
  \/ Call(HandleAutomaticFeedingCall)

SpecWrap == InitWrap /\ [][NextWrap]_vars

\* loop() on a ready modem, the sensor found by setup() or not: iterations
\* long enough for the bowl to be confirmed empty.
InitIter == \E sensorFound \in BOOLEAN : InitReadyWith(sensorFound)

IterUpdateSensorReadings ==
  LoopCall("updateSensorReadings", UpdateSensorReadings(IterReadings), "updateGSMStatus")

IterDelay ==
  /\ pc = "delay"
  /\ Tick(MaxIters, IterDelays)
  /\ pc' = "updateSensorReadings"
  /\ loopDrains' = 0

NextIter ==
  \/ IterUpdateSensorReadings
  \/ LoopUpdateGSMStatus
  \/ LoopHandleManualControls
  \/ LoopHandleAutomaticFeeding
  \/ IterDelay

SpecIter == InitIter /\ [][NextIter]_vars

\* A state 50 minutes after power-up with the daily quota used up: the eighth
\* automatic feed was 10 s ago, its alert was sent by the status poll 5 s ago,
\* the bowl is read empty again, the buttons were never pressed.
InitExhausted ==
  /\ now = 3000000
  /\ ticks = 0
  /\ booted = TRUE
  /\ currentGSMStatus = GSM_SMS_READY
  /\ lastGSMStatusCheck = 2995000
  /\ gsmInitStartTime = 5000
  /\ gsmInitialized = TRUE
  /\ smsInProgress = FALSE
  /\ lastSMSSendTime = 2995000
  /\ smsQueue = [i \in 0..(MAX_SMS_QUEUE - 1) |-> EmptyItem]
  /\ queueHead = 0
  /\ queueTail = 0
  /\ queueCount = 0
  /\ lastHighPrioritySMS = 2995000
  /\ lastMediumPrioritySMS = 0
  /\ lastLowPrioritySMS = 0
  /\ lastConnectionCheck = 2975000
  /\ lastErrorRecovery = 0
  /\ sensorInitialized = TRUE
  /\ currentDistance = 200
  /\ lastSensorRead = 2999000
  /\ bowlEmpty = TRUE
  /\ hopperLow = FALSE
  /\ lastButtonState = HIGH
  /\ lastDebounceTime = 0
  /\ lastModeState = HIGH
  /\ lastModeDebounceTime = 0
  /\ currentMode = CAT_MODE
  /\ systemState = IDLE
  /\ motorEnabled = FALSE
  /\ motorMoving = FALSE
  /\ currentPosition = MAX_DAILY_AUTO_FEEDS * CAT_MIN_PORTION
  /\ lastMotorAction = 2990000
  /\ lastAutoFeedTime = 2990000
  /\ lastAutoFeedCheck = 2990000
  /\ bowlEmptyStartTime = 0
  /\ bowlEmptyConfirmed = FALSE
  /\ dailyAutoFeedCount = MAX_DAILY_AUTO_FEEDS
  /\ dailyResetTime = 5000
  /\ automaticFeedingEnabled = TRUE
  /\ lastMaxFeedAlert = 0
  /\ timerStarted = FALSE
  /\ emptyInterrupted = FALSE
  /\ pc = "updateSensorReadings"
  /\ loopDrains = 0
  /\ nextMsg = MAX_DAILY_AUTO_FEEDS + 1
  /\ lastTx = [p \in Priorities |-> IF p = SMS_PRIORITY_HIGH THEN 2995000 ELSE -1]
  /\ lastOp = Op("tick", -1, FALSE, 0, NoOp)

\* The sensor, the buttons and the feeding policy in the order of loop(): from
\* a ready modem with the sensor found by setup() or not, or with the daily
\* quota used up.
InitManual == InitIter \/ InitExhausted

NextManual ==
  \/ InOrder("handleAutomaticFeeding", Tick(MaxManualTicks, ManualDelays))
  \/ InOrder("tick", UpdateSensorReadings(ManualReadings))
  \/ InOrder("updateSensorReadings", HandleManualControlsCall)
  \/ InOrder("handleManualControls", HandleAutomaticFeedingCall)

SpecManual == InitManual /\ [][NextManual]_vars

\* Messages are queued on a ready modem, then loop() runs with no caller of
\* queueSMS: the status poll and the time of the iteration alternate, the
\* modem answers every connection check.
DrainEnqueue ==
  /\ ticks = 0
  /\ lastOp.op \in {"tick", "queueSMS"}
  /\ Call(SendCustomSMS(MaxDrainMsgs))

DrainPoll ==
  /\ lastOp.op \in {"tick", "queueSMS"}
  /\ Call(UpdateGSMStatusFrom({TRUE}))

DrainTick == InOrder("updateGSMStatus", Tick(MaxDrainTicks, DrainDelays))

\* An iteration of loop(): the status poll, then the time it takes.
DrainLoop ==
  \/ DrainPoll
  \/ DrainTick

NextDrain ==
  \/ DrainEnqueue
  \/ DrainLoop

\* loop() is called again and again and millis() advances.
SpecDrain == InitReady /\ [][NextDrain]_vars /\ WF_vars(DrainLoop)

\* dispensePortionSmooth and dispensePortion called with any step count, one
\* call at a time; a call that faulted is the last.
NextMotor ==
  \/ InOrder("tick", DispensePortionSmoothCall(MotorSteps, MotorAccelerations))
  \/ InOrder("tick", DispensePortionCall(MotorSteps))
  \/ ~lastOp.fault /\ InOrder("dispensePortionSmooth", Tick(MaxMotorTicks, MotorDelays))
  \/ InOrder("dispensePortion", Tick(MaxMotorTicks, MotorDelays))

SpecMotor == InitReady /\ [][NextMotor]_vars

\* The sensor polled by updateSensorReadings, at any pace.
NextSensor ==
  \/ Call(Tick(MaxSensorTicks, SensorDelays))
  \/ Call(UpdateSensorReadings(SensorReadings))

SpecSensor == InitReady /\ [][NextSensor]_vars

\* The transfers of a poll: every write result, short and full answers,
\* distances at the limits of the valid range and around the thresholds, right
\* and wrong checksums.
SensorWires ==
  {WireOf(error, retryError, available, mm, checksumOk) :
     error \in {0, 2, 5}, retryError \in {0, 2}, available \in {2, 3},
     mm \in {0, 79, 100, 151, 300, 4999, 5000}, checksumOk \in BOOLEAN}

\* The same with the transfers of the sensor as inputs.
NextWire ==
  \/ Call(Tick(MaxSensorTicks, SensorDelays))
  \/ Call(UpdateSensorReadingsFrom(SensorWires))

SpecWire == InitReady /\ [][NextWire]_vars

\* The buttons sampled by handleManualControls, at any pace.
NextButton ==
  \/ Call(Tick(MaxButtonTicks, ButtonDelays))
  \/ Call(HandleManualControlsCall)

SpecButton == InitReady /\ [][NextButton]_vars

\* From power-up: setup(), then the sensor, the modem and the feeding policy
\* in the order of loop(), the modem answering or not.
NextBoot ==
  \/ Setup({TRUE}, {NO_READING}, {HIGH})
  \/ InOrder("setup", UpdateSensorReadings(BootReadings))
  \/ InOrder("tick", UpdateSensorReadings(BootReadings))
  \/ InOrder("updateSensorReadings", UpdateGSMStatus)
  \/ InOrder("updateGSMStatus", HandleAutomaticFeedingCall)
  \/ InOrder("handleAutomaticFeeding", Tick(MaxBootTicks, BootDelays))

SpecBoot == Init /\ [][NextBoot]_vars

\* ================================================================ claims
CurQueue == QueueSeq(smsQueue, queueHead, queueCount)

NewQueue == QueueSeq(smsQueue', queueHead', queueCount')

\* The numerically largest (lowest) and smallest (highest) priority in a
\* non-empty sequence of items.
LowestIn(seq) == CHOOSE p \in Priorities :
  /\ \E k \in 1..Len(seq) : seq[k].priority = p
  /\ \A k \in 1..Len(seq) : seq[k].priority <= p

HighestIn(seq) == CHOOSE p \in Priorities :
  /\ \E k \in 1..Len(seq) : seq[k].priority = p
  /\ \A k \in 1..Len(seq) : seq[k].priority >= p

\* The minimum send interval the specification states for a priority class.
ClassInterval(p) == IF p = SMS_PRIORITY_HIGH THEN 10000
                    ELSE IF p = SMS_PRIORITY_MEDIUM THEN 30000 ELSE 120000

\* The last-send timestamp the program keeps for a priority class.
ClassStamp(p) == IF p = SMS_PRIORITY_HIGH THEN lastHighPrioritySMS
                 ELSE IF p = SMS_PRIORITY_MEDIUM THEN lastMediumPrioritySMS
                 ELSE lastLowPrioritySMS

queueContent == <<smsQueue, queueHead, queueTail, queueCount>>

classStamps == <<lastHighPrioritySMS, lastMediumPrioritySMS, lastLowPrioritySMS>>

\* C1: whenever processSMSQueue sends an item, exactly that item leaves the
\* queue: the rest keeps its relative order and queueCount decreases by 1.
C1_SentItemRemoved ==
  [][lastOp'.sent # <<>> =>
       /\ NewQueue = SelectSeq(CurQueue, LAMBDA e : e # lastOp'.sent[1])
       /\ queueCount' = queueCount - 1]_vars

\* C2: every send transmits an item of the highest priority present and, among
\* the items of that priority, the one handed to queueSMS first.
C2_HighestPriorityFifo ==
  [][lastOp'.sent # <<>> =>
       \A k \in 1..queueCount :
         /\ lastOp'.sent[1].priority <= CurQueue[k].priority
         /\ CurQueue[k].priority = lastOp'.sent[1].priority
              => lastOp'.sent[1].msg <= CurQueue[k].msg]_vars

\* C3: a drain on a ready modem, with a High item whose limiter has not elapsed
\* and a Medium or Low item whose own limiter has elapsed, sends such a
\* lower-priority item.
C3_IndependentLimiters ==
  [][(/\ lastOp'.drains = 1
      /\ currentGSMStatus' = GSM_SMS_READY
      /\ ~smsInProgress
      /\ \E k \in 1..queueCount : CurQueue[k].priority = SMS_PRIORITY_HIGH
      /\ Sub32(now, lastHighPrioritySMS) < ClassInterval(SMS_PRIORITY_HIGH)
      /\ \E k \in 1..queueCount :
           /\ CurQueue[k].priority # SMS_PRIORITY_HIGH
           /\ Sub32(now, ClassStamp(CurQueue[k].priority))
                >= ClassInterval(CurQueue[k].priority))
     => /\ lastOp'.sent # <<>>
        /\ lastOp'.sent[1].priority # SMS_PRIORITY_HIGH
        /\ Sub32(now, ClassStamp(lastOp'.sent[1].priority))
             >= ClassInterval(lastOp'.sent[1].priority)]_vars

\* C4: two transmissions of one priority class are at least the class's
\* interval apart; a drain whose selected class was transmitted less than its
\* interval ago sends nothing and leaves the queue as it is; a send stamps the
\* last-send time of its own class and of no other.
C4_PerClassInterval ==
  [][/\ (lastOp'.sent # <<>> /\ lastOp'.prevTx # -1)
        => Sub32(now, lastOp'.prevTx) >= ClassInterval(lastOp'.sent[1].priority)
     /\ (/\ lastOp'.drains = 1
         /\ queueCount > 0
         /\ lastTx[HighestIn(CurQueue)] # -1
         /\ Sub32(now, lastTx[HighestIn(CurQueue)]) < ClassInterval(HighestIn(CurQueue)))
        => lastOp'.sent = <<>> /\ UNCHANGED queueContent
     /\ lastOp'.sent # <<>>
        => \A p \in Priorities :
             IF p = lastOp'.sent[1].priority
             THEN ClassStamp(p)' = now
             ELSE ClassStamp(p)' = ClassStamp(p)]_vars

\* A High message is transmitted exactly 10 s after the previous High one.
C4_Witness ==
  /\ lastOp.sent # <<>>
  /\ lastOp.sent[1].priority = SMS_PRIORITY_HIGH
  /\ lastOp.prevTx # -1
  /\ Sub32(now, lastOp.prevTx) = 10000

\* C5: queueSMS on a full queue with a priority strictly higher than the
\* lowest-priority occupant's replaces one occupant of that lowest priority by
\* the new item; the other four slots and queueCount stay.
C5_EvictLowest ==
  [][(/\ lastOp'.op = "queueSMS"
      /\ queueCount = MAX_SMS_QUEUE
      /\ lastOp'.priority < LowestIn(CurQueue))
     => /\ queueCount' = MAX_SMS_QUEUE
        /\ \E k \in 1..MAX_SMS_QUEUE :
             /\ CurQueue[k].priority = LowestIn(CurQueue)
             /\ NewQueue = [CurQueue EXCEPT ![k] = Item(lastOp'.priority, nextMsg)]]_vars

\* The sixth message evicted an occupant of a queue of five.
C5_Witness ==
  /\ lastOp.op = "queueSMS"
  /\ queueCount = MAX_SMS_QUEUE
  /\ nextMsg = 7
  /\ \A p \in Priorities : lastTx[p] = -1
  /\ \E k \in 1..queueCount : CurQueue[k].msg = 6

\* C6: queueSMS on a full queue with a priority not strictly higher than the
\* lowest-priority occupant's drops the new item: the slots, queueHead,
\* queueTail and queueCount stay.
C6_DropKeepsQueue ==
  [][(/\ lastOp'.op = "queueSMS"
      /\ queueCount = MAX_SMS_QUEUE
      /\ lastOp'.priority >= LowestIn(CurQueue))
     => UNCHANGED queueContent]_vars

\* The sixth message, of the priority of all five occupants, was dropped.
C6_Witness ==
  /\ lastOp.op = "queueSMS"
  /\ queueCount = MAX_SMS_QUEUE
  /\ nextMsg = 7
  /\ \A p \in Priorities : lastTx[p] = -1
  /\ \A k \in 1..queueCount :
       CurQueue[k].msg # 6 /\ CurQueue[k].priority = lastOp.priority

\* C7: the queue stays within its capacity, its indices stay consistent and
\* queueSMS assigns no slot outside the array.
C7_RingConsistent ==
  /\ queueCount \in 0..MAX_SMS_QUEUE
  /\ queueHead \in 0..(MAX_SMS_QUEUE - 1)
  /\ queueTail \in 0..(MAX_SMS_QUEUE - 1)
  /\ queueTail = (queueHead + queueCount) % MAX_SMS_QUEUE
  /\ \A k \in 1..Len(lastOp.wrote) : lastOp.wrote[k] \in 0..(MAX_SMS_QUEUE - 1)

\* queueSMS stored into the last free slot: the queue is full, the tail wrapped.
C7_Witness ==
  /\ lastOp.op = "queueSMS"
  /\ lastOp.wrote = <<MAX_SMS_QUEUE - 1>>
  /\ queueCount = MAX_SMS_QUEUE
  /\ queueTail = queueHead

\* C8: a drain while the modem is not SmsReady (or a send is in flight) sends
\* nothing and leaves the queue and the last-send timestamps as they are; no
\* step transmits while the session is not SmsReady.
C8_DrainNeedsReady ==
  [][/\ (lastOp'.drains = 1 /\ (currentGSMStatus' # GSM_SMS_READY \/ smsInProgress))
        => /\ lastOp'.sent = <<>>
           /\ UNCHANGED queueContent
           /\ UNCHANGED classStamps
           /\ UNCHANGED lastSMSSendTime
     /\ lastOp'.sent # <<>> => currentGSMStatus' = GSM_SMS_READY]_vars

\* The liveness probe of a ready modem failed with a message waiting: the
\* drain of that poll ran on a session that is Initializing again.
C8_Witness ==
  /\ lastOp.op = "updateGSMStatus"
  /\ lastOp.drains = 1
  /\ gsmInitialized
  /\ currentGSMStatus = GSM_INITIALIZING
  /\ queueCount > 0

\* C9 (as stated): every iteration of loop() invokes processSMSQueue once; at
\* the delay that ends an iteration, one call has been made.
C9_DrainEveryIteration ==
  pc = "delay" => loopDrains = 1

\* C9 (amended): an iteration of loop() invokes processSMSQueue at most once,
\* and only from updateGSMStatus: once when 10 s or more have passed since the
\* last status check, not at all otherwise.
C9_DrainWhenPollDue ==
  [][/\ loopDrains' <= 1
     /\ pc = "updateSensorReadings" => loopDrains = 0
     /\ pc = "updateGSMStatus"
          => loopDrains' = IF Sub32(now, lastGSMStatusCheck) >= 10000 THEN 1 ELSE 0
     /\ pc \notin {"updateGSMStatus", "delay"} => loopDrains' = loopDrains]_vars

\* An iteration that follows a status check by less than 10 s ends without a
\* call of processSMSQueue.
C9_Witness ==
  /\ pc = "delay"
  /\ loopDrains = 0
  /\ lastGSMStatusCheck # 0
  /\ Sub32(now, lastGSMStatusCheck) < 10000

\* The case of C10: handleAutomaticFeeding is called with automatic feeding
\* enabled, the daily quota (after the daily reset, when this call makes it)
\* not exhausted, the minimum interval since the last feed and the check
\* interval passed, the bowl empty and the confirmation timer running.
C10_Due ==
  /\ lastOp'.op = "handleAutomaticFeeding"
  /\ automaticFeedingEnabled
  /\ (IF lastOp'.reset THEN 0 ELSE dailyAutoFeedCount) < 8
  /\ lastAutoFeedTime = 0 \/ Sub32(now, lastAutoFeedTime) >= 120000
  /\ Sub32(now, lastAutoFeedCheck) >= 5000
  /\ bowlEmpty
  /\ bowlEmptyStartTime # 0

\* Exactly one feed fired: the count is one more, the feed is stamped, the
\* confirmation is cleared.
C10_OneFeed ==
  /\ lastOp'.feeds = 1
  /\ dailyAutoFeedCount' = (IF lastOp'.reset THEN 0 ELSE dailyAutoFeedCount) + 1
  /\ lastAutoFeedTime' = now
  /\ bowlEmptyConfirmed' = FALSE
  /\ bowlEmptyStartTime' = 0

\* C10 (as stated): a policy evaluation that finds the bowl empty for 60 s or
\* more, with quota and interval satisfied, fires exactly one feed.
C10_FeedAtWindow ==
  [][(C10_Due /\ Sub32(now, bowlEmptyStartTime) >= 60000) => C10_OneFeed]_vars

\* C10 (amended): a policy evaluation that finds the bowl empty for more than
\* 60 s, with quota and interval satisfied, fires exactly one feed; no call
\* fires more than one, and a feed fires only on a confirmation made in the
\* same evaluation, which leaves no confirmation behind for a second feed.
C10_FeedAfterWindow ==
  [][/\ (C10_Due /\ Sub32(now, bowlEmptyStartTime) > 60000) => C10_OneFeed
     /\ lastOp'.feeds <= 1
     /\ lastOp'.feeds = 1 => (lastOp'.confirmed /\ ~bowlEmptyConfirmed')
     /\ ~bowlEmptyConfirmed]_vars

\* The second feed of the day fired, on its own confirmation.
C10_Witness ==
  /\ lastOp.op = "handleAutomaticFeeding"
  /\ lastOp.feeds = 1
  /\ lastOp.confirmed
  /\ dailyAutoFeedCount = 2
  /\ lastAutoFeedTime = now

\* C11: a policy evaluation that finds the bowl not empty fires no feed and
\* clears the confirmation (bowlEmptyStartTime 0, bowlEmptyConfirmed false);
\* a feed fires only on a timer that was started since and has run for more
\* than the confirmation window.
C11_NonEmptyCancels ==
  [][/\ (lastOp'.op = "handleAutomaticFeeding" /\ lastOp'.evaluated /\ ~bowlEmpty)
          => /\ lastOp'.feeds = 0
             /\ bowlEmptyStartTime' = 0
             /\ bowlEmptyConfirmed' = FALSE
     /\ lastOp'.feeds > 0
          => /\ bowlEmpty
             /\ bowlEmptyStartTime # 0
             /\ Sub32(now, bowlEmptyStartTime) > 60000]_vars

\* The policy found food in a bowl whose confirmation timer was running, and
\* cleared the timer without a feed.
C11_Witness ==
  /\ lastOp.op = "handleAutomaticFeeding"
  /\ lastOp.cancelled
  /\ lastOp.feeds = 0
  /\ ~bowlEmpty
  /\ bowlEmptyStartTime = 0
  /\ dailyAutoFeedCount = 0

\* C12: the number of automatic feeds of the day never exceeds
\* MAX_DAILY_AUTO_FEEDS (8); a call of handleAutomaticFeeding that finds the
\* count at 8 and does no daily reset feeds nothing and leaves the count at 8;
\* a call that resets restarts the count from 0.
C12_QuotaHolds ==
  [][lastOp'.op = "handleAutomaticFeeding"
       => /\ dailyAutoFeedCount' <= 8
          /\ (dailyAutoFeedCount = 8 /\ ~lastOp'.reset)
               => (lastOp'.feeds = 0 /\ dailyAutoFeedCount' = 8)
          /\ lastOp'.reset => dailyAutoFeedCount' = lastOp'.feeds]_vars

\* The count is at 8, the bowl is empty and the minimum interval has passed,
\* and the call fed nothing.
C12_Witness ==
  /\ lastOp.op = "handleAutomaticFeeding"
  /\ dailyAutoFeedCount = 8
  /\ ~lastOp.reset
  /\ lastOp.feeds = 0
  /\ bowlEmpty
  /\ Sub32(now, lastAutoFeedTime) >= 120000

\* C13 as stated: the reset happens as soon as now - dailyResetTime reaches
\* 24 h.
C13_ResetAtDay ==
  [][lastOp'.op = "handleAutomaticFeeding"
       => (lastOp'.reset <=> Sub32(now, dailyResetTime) >= 86400000)]_vars

\* C13 amended: a call of handleAutomaticFeeding resets the quota exactly when
\* more than 24 h have passed since dailyResetTime, whatever the count and the
\* other gates; the reset sets the count to 0 (plus the feed of the same call)
\* and dailyResetTime to now, so the next reset is more than 24 h away; a call
\* that does not reset leaves dailyResetTime alone.
C13_ResetAfterDay ==
  [][lastOp'.op = "handleAutomaticFeeding"
       => /\ lastOp'.reset <=> Sub32(now, dailyResetTime) > 86400000
          /\ lastOp'.reset
               => /\ dailyResetTime' = now
                  /\ dailyAutoFeedCount' = lastOp'.feeds
                  /\ lastOp'.cleared = dailyAutoFeedCount
          /\ ~lastOp'.reset
               => /\ dailyResetTime' = dailyResetTime
                  /\ dailyAutoFeedCount' = dailyAutoFeedCount + lastOp'.feeds]_vars

\* A reset that cleared an exhausted quota.
C13_Witness ==
  /\ lastOp.op = "handleAutomaticFeeding"
  /\ lastOp.reset
  /\ lastOp.cleared = 8
  /\ dailyResetTime = now
  /\ dailyAutoFeedCount = 0

\* C14: an automatic feed fires only in a call of handleAutomaticFeeding that
\* confirmed the bowl empty, with the count of the day (after the reset of the
\* same call) under 8, the minimum interval since the last automatic feed
\* elapsed (not asked while lastAutoFeedTime is 0), the sensor initialized and
\* automatic feeding enabled.
C14_FeedGates ==
  [][lastOp'.feeds > 0
       => /\ lastOp'.op = "handleAutomaticFeeding"
          /\ lastOp'.feeds = 1
          /\ lastOp'.confirmed
          /\ bowlEmpty
          /\ (IF lastOp'.reset THEN 0 ELSE dailyAutoFeedCount) < 8
          /\ (lastAutoFeedTime = 0 \/ Sub32(now, lastAutoFeedTime) >= 120000)
          /\ sensorInitialized
          /\ automaticFeedingEnabled]_vars

\* The second automatic feed of the day: the minimum interval was asked.
C14_Witness ==
  /\ lastOp.op = "handleAutomaticFeeding"
  /\ lastOp.feeds = 1
  /\ lastOp.confirmed
  /\ dailyAutoFeedCount = 2
  /\ lastAutoFeedTime = now

\* C15 as stated: the motion request of an automatic feed is (min+max)/2 of
\* the portion band of the current mode, 1100 steps for a cat and 4250 steps
\* for a dog.
C15_AutoPortion ==
  [][(lastOp'.op = "handleAutomaticFeeding" /\ lastOp'.feeds > 0)
       => lastOp'.steps = <<IF currentMode = CAT_MODE THEN 1100 ELSE 4250>>]_vars

\* C16 as stated: every automatic feed hands one SMS_AUTO_FEED alert to the
\* queue (queueSMS is called for it), whatever the state of the modem.
C16_FeedAlerts ==
  [][(lastOp'.op = "handleAutomaticFeeding" /\ lastOp'.feeds > 0)
       => \E i \in 1..Len(lastOp'.alerts) : lastOp'.alerts[i] = SMS_AUTO_FEED]_vars

\* C17: readButtonWithDebounce reports a press only on a call whose previous
\* sample is HIGH and whose sample is LOW, and two presses of a button are
\* never less than DEBOUNCE_DELAY (50 ms) apart: the time of the last press
\* of a button is kept by every call that reports none, and a press comes at
\* least 50 ms after it. A press of the feed button is a call with a motion
\* request, a press of the mode button is a call that toggles currentMode.
C17_Debounced ==
  [][lastOp'.op = "handleManualControls"
       => /\ IF lastOp'.steps # <<>>
             THEN /\ lastButtonState = HIGH
                  /\ lastButtonState' = LOW
                  /\ Sub32(now, lastDebounceTime) >= 50
                  /\ currentPosition # 0 => Sub32(now, lastMotorAction) >= 50
                  /\ lastDebounceTime' = now
             ELSE lastDebounceTime' = lastDebounceTime
          /\ IF currentMode' # currentMode
             THEN /\ lastModeState = HIGH
                  /\ lastModeState' = LOW
                  /\ Sub32(now, lastModeDebounceTime) >= 50
                  /\ lastModeDebounceTime' = now
             ELSE lastModeDebounceTime' = lastModeDebounceTime]_vars

\* A second press of the feed button, 60 ms after the first, after an edge
\* at 10 ms that was no press.
C17_Witness ==
  /\ lastOp.op = "handleManualControls"
  /\ lastOp.steps # <<>>
  /\ currentPosition = 2 * CAT_MIN_PORTION
  /\ lastDebounceTime = now
  /\ now = 150000 + 10 + 60

\* C18: the bowl flag has hysteresis. It goes from false to true only on a
\* reading over 15 cm, from true to false only on a reading under 8 cm, and a
\* reading from 8 cm to 15 cm leaves it as it was; it changes only in a call
\* that polled the sensor.
C18_Hysteresis ==
  [][lastOp'.op = "updateSensorReadings"
       => /\ (~bowlEmpty /\ bowlEmpty') => currentDistance' > 150
          /\ (bowlEmpty /\ ~bowlEmpty') => currentDistance' < 80
          /\ (currentDistance' >= 80 /\ currentDistance' <= 150) => bowlEmpty' = bowlEmpty
          /\ bowlEmpty' # bowlEmpty => lastOp'.polled
          /\ (lastOp'.polled /\ currentDistance' # currentDistance)
               => /\ currentDistance' > 150 => bowlEmpty'
                  /\ currentDistance' < 80 => ~bowlEmpty']_vars

\* The bowl was found empty and a reading of exactly 8 cm kept it empty.
C18_Witness ==
  /\ lastOp.op = "updateSensorReadings"
  /\ lastOp.polled
  /\ currentDistance = 80
  /\ bowlEmpty

\* C19: for every steps > 0 the profile of dispensePortionSmooth has
\* accelSteps + cruiseSteps + decelSteps = steps, accelSteps = decelSteps,
\* accelSteps = min(steps / 4, acceleration) and 2 * accelSteps <= steps
\* (cruiseSteps >= 0).
C19_Profile ==
  [][(lastOp'.op = "dispensePortionSmooth" /\ lastOp'.asked > 0)
       => /\ Len(lastOp'.profile) = 1
          /\ LET steps == lastOp'.asked
                 p == lastOp'.profile[1]
             IN /\ p.accelSteps + p.cruiseSteps + p.decelSteps = steps
                /\ p.accelSteps = p.decelSteps
                /\ p.accelSteps <= steps \div 4
                /\ p.accelSteps <= p.acceleration
                /\ p.accelSteps = steps \div 4 \/ p.accelSteps = p.acceleration
                /\ 2 * p.accelSteps <= steps
                /\ p.cruiseSteps >= 0]_vars

\* A move of 500 steps: the acceleration parameter (100) caps the quarter of
\* the move (125).
C19_Witness ==
  /\ lastOp.op = "dispensePortionSmooth"
  /\ lastOp.asked = 500
  /\ Len(lastOp.profile) = 1
  /\ lastOp.profile[1].accelSteps = 100
  /\ lastOp.profile[1].cruiseSteps = 300
  /\ lastOp.profile[1].decelSteps = 100

\* C20 as stated: for every steps > 0 dispensePortionSmooth runs to
\* completion: it does not fault, emits exactly steps pulses, leaves the
\* driver disabled and records the time.
C20_Completes ==
  [][(lastOp'.op = "dispensePortionSmooth" /\ lastOp'.asked > 0)
       => /\ ~lastOp'.fault
          /\ lastOp'.pulses = lastOp'.asked
          /\ ~motorEnabled'
          /\ ~motorMoving'
          /\ lastMotorAction' = now]_vars

\* C21 as stated: a request with steps <= 0, to dispensePortion or to
\* dispensePortionSmooth, is a no-op that reports an invalid portion: the
\* driver is not enabled, no pulse is emitted, and currentPosition,
\* motorMoving and lastMotorAction are unchanged.
C21_InvalidPortion ==
  [][(lastOp'.op \in {"dispensePortion", "dispensePortionSmooth"} /\ lastOp'.asked <= 0)
       => /\ lastOp'.reports = <<"Invalid portion size">>
          /\ lastOp'.pulses = 0
          /\ lastOp'.steps = <<>>
          /\ UNCHANGED motorVars]_vars

\* The transfer of the last poll is invalid: a write error (after the retry
\* of error 5), fewer than 3 bytes, or a distance outside (0, 500) cm.
C22_Invalid(wire) ==
  \/ wire.error # 0 /\ ~(wire.error = 5 /\ wire.retryError = 0)
  \/ wire.available < 3
  \/ (wire.highByte * 256) + wire.lowByte <= 0
  \/ (wire.highByte * 256) + wire.lowByte >= 5000

\* C22: a poll with an invalid result keeps currentDistance, bowlEmpty and
\* hopperLow and fires no alert; any other poll, whatever its checksum, takes
\* the distance read.
C22_InvalidPollKeeps ==
  [][(lastOp'.op = "updateSensorReadings" /\ lastOp'.wire # <<>>)
       => IF C22_Invalid(lastOp'.wire[1])
          THEN /\ currentDistance' = currentDistance
               /\ bowlEmpty' = bowlEmpty
               /\ hopperLow' = hopperLow
               /\ lastOp'.reports = <<>>
               /\ lastOp'.states = <<>>
          ELSE currentDistance' = (lastOp'.wire[1].highByte * 256) + lastOp'.wire[1].lowByte]_vars

\* The bowl is empty at 15.1 cm and a poll that read 500 cm changed nothing.
C22_Witness ==
  /\ lastOp.op = "updateSensorReadings"
  /\ lastOp.wire # <<>>
  /\ lastOp.wire[1] = WireOf(0, 0, 3, 5000, TRUE)
  /\ currentDistance = 151
  /\ bowlEmpty

\* C26 as stated: every change of the bowl flag and every change of the
\* hopper flag fires exactly one alert in the poll where it happens, and no
\* alert fires otherwise.
C26_AlertPerChange ==
  [][lastOp'.op = "updateSensorReadings"
       => Len(lastOp'.reports) = (IF bowlEmpty' # bowlEmpty THEN 1 ELSE 0)
                                 + (IF hopperLow' # hopperLow THEN 1 ELSE 0)]_vars

\* C26 amended: a poll alerts once for a change of the bowl flag, in either
\* direction, and once for a hopper that became low; a hopper that is no
\* longer low fires no alert, and no alert fires in a poll without a change.
C26_AlertPerBowlChangeAndHopperLow ==
  [][lastOp'.op = "updateSensorReadings"
       => lastOp'.reports =
            (IF bowlEmpty' = bowlEmpty THEN <<>>
             ELSE IF bowlEmpty' THEN <<"Bowl is now EMPTY">>
             ELSE <<"Bowl now has food">>)
            \o (IF hopperLow' /\ ~hopperLow
                THEN <<"Hopper is running LOW or EMPTY">>
                ELSE <<>>)]_vars

\* The hopper was low and a poll found it no longer low, the bowl staying
\* empty: no alert.
C26_Witness ==
  /\ lastOp.op = "updateSensorReadings"
  /\ lastOp.previous = <<TRUE, TRUE>>
  /\ bowlEmpty
  /\ ~hopperLow
  /\ lastOp.reports = <<>>

\* C23 as stated: in Initializing, NetworkSearching or NetworkConnected, a
\* status poll made after the timeouts of the initialization (60 s since it
\* started, the longer of the two) at which the modem fails to answer sets
\* the status to Error.
C23_ErrorOnTimeout ==
  [][(/\ lastOp'.op = "updateGSMStatus"
      /\ lastOp'.answered = <<FALSE>>
      /\ currentGSMStatus \in {GSM_INITIALIZING, GSM_NETWORK_SEARCHING,
                                GSM_NETWORK_CONNECTED}
      /\ Sub32(now, gsmInitStartTime) > 60000)
       => currentGSMStatus' = GSM_ERROR]_vars

\* C24: a status poll that finds Error more than 30 s after the last recovery
\* attempt re-initializes the modem (Initializing, a new initialization start,
\* gsmInitialized false) and records the attempt; a poll that finds Error
\* sooner leaves it; the status leaves Error in no other way, so two attempts
\* are more than 30 s apart.
C24_ErrorRecovers ==
  [][/\ (lastOp'.op = "updateGSMStatus" /\ lastOp'.polled /\ currentGSMStatus = GSM_ERROR)
          => IF Sub32(now, lastErrorRecovery) > 30000
             THEN /\ currentGSMStatus' = GSM_INITIALIZING
                  /\ gsmInitStartTime' = now
                  /\ ~gsmInitialized'
                  /\ lastErrorRecovery' = now
             ELSE /\ currentGSMStatus' = GSM_ERROR
                  /\ lastErrorRecovery' = lastErrorRecovery
     /\ (currentGSMStatus = GSM_ERROR /\ currentGSMStatus' # GSM_ERROR)
          => /\ lastOp'.op = "updateGSMStatus"
             /\ currentGSMStatus' = GSM_INITIALIZING
             /\ Sub32(now, lastErrorRecovery) > 30000
     /\ lastErrorRecovery' # lastErrorRecovery
          => (currentGSMStatus = GSM_ERROR /\ lastErrorRecovery' = now)]_vars

\* A second recovery attempt: the modem is initializing again and an earlier
\* attempt had been recorded.
C24_Witness ==
  /\ lastOp.op = "updateGSMStatus"
  /\ lastOp.polled
  /\ currentGSMStatus = GSM_INITIALIZING
  /\ lastErrorRecovery = now
  /\ gsmInitStartTime = now
  /\ now >= 5000 + 120000 + 10000 + 120000 + 10000

\* C25 as stated: the drain of the queue runs after the feeding policy and
\* the actuators of the same iteration: the step before a drain is the policy
\* or the manual controls.
C25_DrainAfterPolicy ==
  [][lastOp'.drains > 0
       => lastOp.op \in {"handleAutomaticFeeding", "handleManualControls"}]_vars

\* C25 amended: an iteration of loop() runs updateSensorReadings, then
\* updateGSMStatus, which polls the modem and drains the queue, then
\* handleManualControls, then handleAutomaticFeeding, which feeds, then the
\* delay; the queue is drained only in updateGSMStatus, before the policy of
\* the same iteration.
C25_LoopOrder ==
  [][/\ lastOp'.op = "updateSensorReadings" => lastOp.op \in {"setup", "tick"}
     /\ lastOp'.op = "updateGSMStatus" => lastOp.op = "updateSensorReadings"
     /\ lastOp'.op = "handleManualControls" => lastOp.op = "updateGSMStatus"
     /\ lastOp'.op = "handleAutomaticFeeding" => lastOp.op = "handleManualControls"
     /\ lastOp'.op = "tick" => lastOp.op = "handleAutomaticFeeding"
     /\ lastOp'.drains > 0 => lastOp'.op = "updateGSMStatus"
     /\ lastOp'.feeds > 0 => lastOp'.op = "handleAutomaticFeeding"]_vars

\* An iteration is at its delay and its modem poll drained the queue: the
\* drain came before the policy step that just ran.
C25_Witness ==
  /\ pc = "delay"
  /\ loopDrains = 1
  /\ lastOp.op = "handleAutomaticFeeding"
  /\ lastOp.evaluated

\* C27 as stated: the bowl is confirmed empty only if it was not seen with
\* food at any poll of the sensor since bowlEmptyStartTime.
C27_ContinuouslyEmpty ==
  [][(lastOp'.op = "handleAutomaticFeeding" /\ lastOp'.confirmed)
       => ~emptyInterrupted]_vars

\* C28 as stated: a HIGH->LOW edge of the feed button sampled at least 50 ms
\* after the last accepted press is reported, one sampled sooner is not.
C28_PressAtDelay ==
  [][(/\ lastOp'.op = "handleManualControls"
      /\ lastButtonState = HIGH
      /\ lastOp'.pins[1] = LOW)
       => (lastOp'.steps # <<>> <=> Sub32(now, lastDebounceTime) >= 50)]_vars

\* C28 amended: the edge is reported when more than 50 ms have elapsed since
\* the last accepted press; at exactly 50 ms, or sooner, it is suppressed.
C28_PressAfterDelay ==
  [][(/\ lastOp'.op = "handleManualControls"
      /\ lastButtonState = HIGH
      /\ lastOp'.pins[1] = LOW)
       => (lastOp'.steps # <<>> <=> Sub32(now, lastDebounceTime) > 50)]_vars

\* An edge exactly 50 ms after the accepted press was suppressed: one press
\* was fed, the button is down again and the time of the press is 50 ms old.
C28_Witness ==
  /\ lastOp.op = "handleManualControls"
  /\ lastOp.pins # <<>>
  /\ lastOp.pins[1] = LOW
  /\ lastOp.steps = <<>>
  /\ lastButtonState = LOW
  /\ currentPosition = CAT_MIN_PORTION
  /\ Sub32(now, lastDebounceTime) = 50
  /\ lastDebounceTime = 150000

\* C29: every call of readButtonWithDebounce sets lastState to the level
\* sampled, for the feed button and for the mode button, and changes
\* lastDebounceTime only when it reports a press; a call that finds the last
\* state LOW reports no press, however long the button stays down.
C29_LastStateFollows ==
  [][lastOp'.op = "handleManualControls"
       => /\ lastButtonState' = lastOp'.pins[1]
          /\ lastModeState' = lastOp'.pins[2]
          /\ lastDebounceTime' # lastDebounceTime => lastOp'.steps # <<>>
          /\ lastModeDebounceTime' # lastModeDebounceTime => currentMode' # currentMode
          /\ lastButtonState = LOW => lastOp'.steps = <<>>
          /\ lastModeState = LOW => currentMode' = currentMode]_vars

\* The feed button was sampled LOW 20 ms after the only accepted press and is
\* still LOW 80 ms after it: no press is reported.
C29_Witness ==
  /\ lastOp.op = "handleManualControls"
  /\ lastOp.pins # <<>>
  /\ lastOp.pins[1] = LOW
  /\ lastOp.steps = <<>>
  /\ lastButtonState = LOW
  /\ currentPosition = CAT_MIN_PORTION
  /\ lastDebounceTime = 150000
  /\ now = 150000 + 10 + 10 + 60

C30_Reverse(delays) == [i \in 1..Len(delays) |-> delays[Len(delays) + 1 - i]]

\* C30 as stated: for steps >= 4 the delays of the deceleration phase are the
\* delays of the acceleration phase in reverse order, and the cruise phase
\* uses the delay 1000000 / maxSpeed microseconds.
C30_DecelMirrorsAccel ==
  [][(/\ lastOp'.op = "dispensePortionSmooth"
      /\ lastOp'.asked >= 4)
       => /\ Len(lastOp'.profile) = 1
          /\ lastOp'.profile[1].decelDelays = C30_Reverse(lastOp'.profile[1].accelDelays)
          /\ lastOp'.profile[1].cruiseDelay = 1000000 \div 200]_vars

\* ---------------------------------------------------------------- C31
\* A call of handleAutomaticFeeding that issued the alert of the exhausted
\* quota (the only SMS_BOWL_EMPTY_ALERT this handler sends).
C31_Alerted(op) ==
  /\ op.op = "handleAutomaticFeeding"
  /\ \E i \in DOMAIN op.alerts : op.alerts[i] = SMS_BOWL_EMPTY_ALERT

\* C31: the alert of the exhausted quota is issued only while the quota is
\* exhausted and the bowl is empty, and more than 3 600 000 ms after the one
\* before it: lastMaxFeedAlert changes only when the alert is issued, to the
\* time of the alert, and an alert is issued only when more than an hour has
\* passed since lastMaxFeedAlert.
C31_HourlyAlert ==
  [][/\ C31_Alerted(lastOp') =>
          /\ dailyAutoFeedCount >= MAX_DAILY_AUTO_FEEDS
          /\ dailyAutoFeedCount' >= MAX_DAILY_AUTO_FEEDS
          /\ bowlEmpty
          /\ Sub32(now, lastMaxFeedAlert) > 3600000
          /\ lastMaxFeedAlert' = now
          /\ GetSMSPriority(SMS_BOWL_EMPTY_ALERT) = SMS_PRIORITY_MEDIUM
     /\ ~C31_Alerted(lastOp') => lastMaxFeedAlert' = lastMaxFeedAlert]_vars

\* The alert has been issued for the second time: eight feeds and two alerts
\* were handed to the dispatcher.
C31_Witness ==
  /\ C31_Alerted(lastOp)
  /\ nextMsg = 1 + MAX_DAILY_AUTO_FEEDS + 2
  /\ lastMaxFeedAlert = now

\* ---------------------------------------------------------------- C32
\* The status of the modem session goes from one value to another in this step.
C32_Edge(from, to) == currentGSMStatus = from /\ currentGSMStatus' = to

\* C32: the modem session status changes only along the edges
\* Offline->Initializing (setup), Initializing->NetworkSearching,
\* NetworkSearching->NetworkConnected, NetworkConnected->SmsReady,
\* SmsReady->Initializing (failed connection check), Initializing->Error and
\* NetworkSearching->Error (timeout), Error->Initializing, one edge per status
\* poll; connection checks are at least 60 s apart; queueSMS and
\* processSMSQueue never change the status.
C32_ModemEdges ==
  [][/\ currentGSMStatus' # currentGSMStatus =>
          \/ C32_Edge(GSM_OFFLINE, GSM_INITIALIZING) /\ lastOp'.op = "setup"
          \/ /\ lastOp'.op = "updateGSMStatus"
             /\ lastOp'.polled
             /\ \/ C32_Edge(GSM_INITIALIZING, GSM_NETWORK_SEARCHING)
                \/ C32_Edge(GSM_NETWORK_SEARCHING, GSM_NETWORK_CONNECTED)
                \/ C32_Edge(GSM_NETWORK_CONNECTED, GSM_SMS_READY)
                \/ /\ C32_Edge(GSM_SMS_READY, GSM_INITIALIZING)
                   /\ lastOp'.answered = <<FALSE>>
                   /\ lastConnectionCheck' = now
                \/ /\ C32_Edge(GSM_INITIALIZING, GSM_ERROR)
                   /\ Sub32(now, gsmInitStartTime) > GSM_INIT_TIMEOUT
                \/ /\ C32_Edge(GSM_NETWORK_SEARCHING, GSM_ERROR)
                   /\ Sub32(now, gsmInitStartTime) > GSM_INIT_TIMEOUT * 2
                \/ C32_Edge(GSM_ERROR, GSM_INITIALIZING)
     /\ lastConnectionCheck' # lastConnectionCheck =>
          /\ currentGSMStatus = GSM_SMS_READY
          /\ Sub32(now, lastConnectionCheck) >= 60000
          /\ lastConnectionCheck' = now
     /\ lastOp'.op \in {"queueSMS", "processSMSQueue"} =>
          currentGSMStatus' = currentGSMStatus]_vars

\* The connection check failed on a session that was ready: it is being
\* brought up again.
C32_Witness ==
  /\ lastOp.op = "updateGSMStatus"
  /\ lastOp.answered = <<FALSE>>
  /\ currentGSMStatus = GSM_INITIALIZING
  /\ gsmInitialized
  /\ lastConnectionCheck = now

\* ---------------------------------------------------------------- C33
\* C33: the timing gates behave the same when the millisecond clock wraps, for
\* every clock value at which a snapshot was taken, the value 0 included: an
\* automatic feed is at least AUTO_FEED_MIN_INTERVAL after the automatic feed
\* before it, and a call of handleAutomaticFeeding that finds the bowl empty
\* and does not feed leaves a started confirmation timer as it is.
C33_WrapSafe ==
  [][lastOp'.op = "handleAutomaticFeeding" =>
       /\ lastOp'.feeds > 0 =>
            Sub32(now, lastAutoFeedTime) >= AUTO_FEED_MIN_INTERVAL
       /\ (timerStarted /\ bowlEmpty /\ lastOp'.feeds = 0) =>
            (timerStarted' /\ bowlEmptyStartTime' = bowlEmptyStartTime)]_vars

\* ---------------------------------------------------------------- C34
\* C34: at the end of every iteration of loop() bowlEmptyConfirmed is false:
\* the call of handleAutomaticFeeding that confirms the empty bowl also feeds,
\* and the feed clears the flag in the same call.
C34_NoPendingConfirmation ==
  [][/\ lastOp'.confirmed => (lastOp'.feeds = 1 /\ ~bowlEmptyConfirmed')
     /\ pc' \in {"delay", "updateSensorReadings"} => ~bowlEmptyConfirmed']_vars

\* An iteration in which the empty bowl was confirmed and the feed made.
C34_Witness ==
  /\ pc = "delay"
  /\ lastOp.op = "handleAutomaticFeeding"
  /\ lastOp.confirmed
  /\ lastOp.feeds = 1
  /\ ~bowlEmptyConfirmed

\* ---------------------------------------------------------------- C35
\* C35: at the end of every iteration of loop() systemState is IDLE, the motor
\* is neither enabled nor moving and no SMS is in progress: every feed, hopper
\* alert and SMS send of the iteration ends in it; a call that changes
\* systemState leaves it at IDLE, and CHECKING_BOWL and ERROR_STATE are never
\* entered.
C35_IdleAtEnd ==
  [][/\ pc' \in {"delay", "updateSensorReadings"} =>
          /\ systemState' = IDLE
          /\ ~motorEnabled'
          /\ ~motorMoving'
          /\ ~smsInProgress'
     /\ lastOp'.states # <<>> =>
          /\ lastOp'.states[Len(lastOp'.states)] = IDLE
          /\ systemState' = IDLE
     /\ \A i \in DOMAIN lastOp'.states :
          lastOp'.states[i] \notin {CHECKING_BOWL, ERROR_STATE}
     /\ systemState' \notin {CHECKING_BOWL, ERROR_STATE}]_vars

\* An iteration ends after the hopper alert, a manual and an automatic feed
\* and an SMS sent by the status poll.
C35_Witness ==
  /\ pc = "delay"
  /\ lastOp.op = "handleAutomaticFeeding"
  /\ lastOp.feeds = 1
  /\ lastOp.states = <<DISPENSING, MANUAL_FEEDING, IDLE, IDLE>>
  /\ hopperLow
  /\ currentPosition > CAT_MIN_PORTION
  /\ lastTx[SMS_PRIORITY_HIGH] # -1
  /\ systemState = IDLE

\* ---------------------------------------------------------------- C36
\* C36: an automatic feed is more than AUTO_FEED_MIN_INTERVAL +
\* BOWL_EMPTY_CONFIRMATION_TIME after the automatic feed before it, whose time
\* lastAutoFeedTime holds.
C36_FeedsApart ==
  [][(lastOp'.op = "handleAutomaticFeeding" /\ lastOp'.feeds > 0) =>
       Sub32(now, lastAutoFeedTime) >
         AUTO_FEED_MIN_INTERVAL + BOWL_EMPTY_CONFIRMATION_TIME]_vars

\* ---------------------------------------------------------------- C37
\* The step is a call of handleManualControls that finds a press of the feed
\* button: the pin went from HIGH to LOW more than DEBOUNCE_DELAY after the
\* press before.
C37_Press ==
  /\ lastOp'.op = "handleManualControls"
  /\ lastButtonState = HIGH
  /\ lastOp'.pins[1] = LOW
  /\ Sub32(now, lastDebounceTime) > DEBOUNCE_DELAY

\* C37: a press of the feed button dispenses the minimum portion of the
\* current mode whatever the daily count, the time since the last automatic
\* feed, the bowl and the sensor are, and no call of handleManualControls
\* changes dailyAutoFeedCount, lastAutoFeedTime, lastAutoFeedCheck,
\* bowlEmptyStartTime or bowlEmptyConfirmed.
C37_ManualFeed ==
  [][/\ C37_Press =>
          LET portion == IF currentMode = CAT_MODE THEN CAT_MIN_PORTION
                         ELSE DOG_MIN_PORTION IN
          /\ lastOp'.steps = <<portion>>
          /\ lastOp'.pulses = portion
          /\ currentPosition' = currentPosition + portion
     /\ lastOp'.op = "handleManualControls" =>
          /\ dailyAutoFeedCount' = dailyAutoFeedCount
          /\ lastAutoFeedTime' = lastAutoFeedTime
          /\ lastAutoFeedCheck' = lastAutoFeedCheck
          /\ bowlEmptyStartTime' = bowlEmptyStartTime
          /\ bowlEmptyConfirmed' = bowlEmptyConfirmed]_vars

\* A manual feed in dog mode with the daily quota used up, less than
\* AUTO_FEED_MIN_INTERVAL after the last automatic feed, the bowl empty.
C37_Witness ==
  /\ lastOp.op = "handleManualControls"
  /\ lastOp.steps = <<DOG_MIN_PORTION>>
  /\ dailyAutoFeedCount = MAX_DAILY_AUTO_FEEDS
  /\ Sub32(now, lastAutoFeedTime) < AUTO_FEED_MIN_INTERVAL
  /\ bowlEmpty

\* ---------------------------------------------------------------- C38
\* The send limiter of the class p.
C38_Stamp(p) ==
  IF p = SMS_PRIORITY_HIGH THEN lastHighPrioritySMS
  ELSE IF p = SMS_PRIORITY_MEDIUM THEN lastMediumPrioritySMS
  ELSE lastLowPrioritySMS

\* The limiter of the item the drain selects, one of the highest priority in
\* the queue, has elapsed.
C38_Elapsed ==
  /\ queueCount > 0
  /\ Sub32(now, C38_Stamp(HighestIn(CurQueue))) >= ClassInterval(HighestIn(CurQueue))

\* Every status poll on a ready modem sends one message and takes queueCount
\* down by one when the limiter of the selected item has elapsed, and sends
\* nothing else.
C38_OnePerPoll ==
  [][(lastOp'.op = "updateGSMStatus" /\ currentGSMStatus' = GSM_SMS_READY) =>
       IF lastOp'.polled /\ C38_Elapsed
       THEN /\ queueCount' = queueCount - 1
            /\ Len(lastOp'.sent) = 1
       ELSE /\ queueCount' = queueCount
            /\ lastOp'.sent = <<>>]_vars

\* C38: while the modem stays ready, loop() keeps running, the clock advances
\* and nothing more is queued, a queue that is not empty becomes empty; every
\* status poll at which the limiter of the selected item has elapsed takes
\* queueCount down by exactly one, and a poll sends at most one SMS.
C38_QueueDrains ==
  /\ C38_OnePerPoll
  /\ (queueCount > 0) ~> (queueCount = 0)

\* A full queue was drained to the last message by the status polls.
C38_Witness ==
  /\ lastOp.op = "updateGSMStatus"
  /\ Len(lastOp.sent) = 1
  /\ queueCount = 0
  /\ nextMsg = MAX_SMS_QUEUE + 1
  /\ currentGSMStatus = GSM_SMS_READY

====
